---- MODULE Spec2Model ----
(***************************************************************************)
(* JSONPath autocomplete engine of openapi-format-playground-x             *)
(* (src/src/utils.ts): segment analyzer, path tokenizer, suggestion        *)
(* ranker, schema path resolver and contextual suggestions.                *)
(*                                                                         *)
(* JavaScript strings are TLA+ strings (sequences of characters, 1-based); *)
(* JavaScript indices are 0-based and are kept 0-based in every operator   *)
(* that returns or takes an index.                                         *)
(***************************************************************************)
EXTENDS Integers, Sequences, FiniteSets, TLC

VARIABLES
  op,           \* position of the call under way: "start", then the name of the last call
  doc,          \* the document tree handed to the resolver / contextual suggestions
  path,         \* currentPath / path argument
  cursor,       \* cursorPosition argument
  suggestions,  \* the suggestions array handed to the ranker (never written by it)
  analysis,     \* result of analyzeCurrentSegment
  categorized,  \* the ranker's categorized array after the in-place sort
  ranked,       \* result of categorizeAndSortSuggestions
  reranked,     \* result of ranking `ranked` again
  resolved,     \* outcome of resolveSchemaPath
  contextual,   \* outcome of getContextualSuggestions
  \* the JSONPathAutocomplete component (src/unnamed/part_001)
  inputValue,              \* useState: the text the input shows
  cursorPositionState,     \* useState cursorPosition: the stored cursor position
  showSuggestions,         \* useState: the list is open
  filteredSuggestions,     \* useState: the list on display
  highlightedIndex,        \* useState: the highlighted entry, -1 for none
  debouncedChangeTimeout,  \* useRef: handle of the last debounce timer, 0 for null
  timers,                  \* the pending setTimeout callbacks
  nextTimer,               \* the handle the next setTimeout returns
  onChangeCalls,           \* the calls of the onChange prop so far, in order
  edits,                   \* how many keystrokes and selections have been handled
  lastKeystroke,           \* the value the last keystroke left in the input
  \* calls of the tokenizer and of extractPropertyPaths (src/src/utils.ts)
  otherPath,       \* the second path handed to commonPathLength
  pathSegments,    \* result of parsePathSegments(path)
  otherSegments,   \* result of parsePathSegments(otherPath)
  commonResult,    \* result of commonPathLength(path, otherPath)
  reversedResult,  \* result of commonPathLength(otherPath, path)
  extracted,       \* result of extractPropertyPaths(doc)
  specificPaths    \* outcome of extractOpenAPISpecificPaths(doc)

\* the variables of the component
inputVars == <<inputValue, cursorPositionState, showSuggestions, filteredSuggestions,
               highlightedIndex, debouncedChangeTimeout, timers, nextTimer,
               onChangeCalls, edits, lastKeystroke>>

\* the variables of the calls of the pure functions
callVars == <<op, doc, path, cursor, suggestions, analysis, categorized, ranked,
              reranked, resolved, contextual>>

\* the variables of the tokenizer and extractor calls
listVars == <<otherPath, pathSegments, otherSegments, commonResult, reversedResult,
              extracted, specificPaths>>

vars == <<callVars, inputVars, listVars>>

\* no tokenizer or extractor call has been made
NoLists ==
  /\ otherPath = ""
  /\ pathSegments = <<>>
  /\ otherSegments = <<>>
  /\ commonResult = 0
  /\ reversedResult = 0
  /\ extracted = <<>>
  /\ specificPaths = <<>>

\* no component is mounted
NoInput ==
  /\ inputValue = ""
  /\ cursorPositionState = 0
  /\ showSuggestions = FALSE
  /\ filteredSuggestions = <<>>
  /\ highlightedIndex = -1
  /\ debouncedChangeTimeout = 0
  /\ timers = {}
  /\ nextTimer = 1
  /\ onChangeCalls = <<>>
  /\ edits = 0
  /\ lastKeystroke = ""

-----------------------------------------------------------------------------
(* Bounds of the model *)

\* longest path string handed to analyzeCurrentSegment
MaxPathLen == 4

\* longest suggestions array handed to the ranker
MaxSuggestions == 3

\* most tokens a path handed to resolveSchemaPath is made of
MaxResolveTokens == 3

\* most tokens a path handed to getContextualSuggestions is made of
MaxContextTokens == 2

\* most keystrokes and selections the component handles in one behaviour
MaxEdits == 2

\* longest path handed to parsePathSegments
MaxScanLen == 4

\* longest array in the documents handed to extractPropertyPaths
MaxArrayLen == 6

\* most keys of the `paths` object handed to extractOpenAPISpecificPaths
MaxPathKeys == 2

\* most tokens a path handed to getContextualSuggestions for the keys of the
\* parent object is made of
MaxKeyTokens == 2

-----------------------------------------------------------------------------
(* JavaScript string primitives *)

Min(a, b) == IF a <= b THEN a ELSE b
Max(a, b) == IF a >= b THEN a ELSE b

\* s[i] for a 0-based i inside the string
CharAt(s, i) == SubSeq(s, i + 1, i + 1)

\* String.prototype.substring(a, b): both ends clamped to 0..length, swapped
\* when a > b
Substring(s, a, b) ==
  LET ca == Max(0, Min(a, Len(s)))
      cb == Max(0, Min(b, Len(s)))
      lo == Min(ca, cb)
      hi == Max(ca, cb)
  IN  SubSeq(s, lo + 1, hi)

\* String.prototype.substring(a)
SubstringFrom(s, a) == Substring(s, a, Len(s))

\* String.prototype.lastIndexOf(c) for a one-character c: 0-based, -1 if absent
LastIndexOf(s, c) ==
  LET hits == {i \in 0..(Len(s) - 1) : CharAt(s, i) = c}
  IN  IF hits = {} THEN -1 ELSE CHOOSE i \in hits : \A j \in hits : j <= i

\* String.prototype.startsWith(p)
StartsWith(s, p) == Len(p) <= Len(s) /\ SubSeq(s, 1, Len(p)) = p

\* String.prototype.includes(p)
Includes(s, p) ==
  \E i \in 0..(Len(s) - Len(p)) : SubSeq(s, i + 1, i + Len(p)) = p

\* String.prototype.toLowerCase(), on the letters the model's strings use
LowerChar(c) ==
  CASE c = "P" -> "p"
    [] c = "A" -> "a"
    [] c = "I" -> "i"
    [] c = "T" -> "t"
    [] OTHER -> c

\* (a loop over the characters of a string is unfolded by halves throughout,
\* which visits them in the same order; where the loop carries variables, the
\* state after the first half is read before the second half starts, so that
\* TLC computes it there and then)
RECURSIVE ToLowerCase(_)
ToLowerCase(s) ==
  IF Len(s) <= 1 THEN LowerChar(s)
  ELSE ToLowerCase(SubSeq(s, 1, Len(s) \div 2))
         \o ToLowerCase(SubSeq(s, Len(s) \div 2 + 1, Len(s)))

\* all strings over alphabet `chars` of length at most n
RECURSIVE StringsUpTo(_, _)
StringsUpTo(chars, n) ==
  IF n = 0 THEN {""}
  ELSE LET shorter == StringsUpTo(chars, n - 1)
       IN  shorter \cup {s \o c : s \in shorter, c \in chars}

-----------------------------------------------------------------------------
(* analyzeCurrentSegment, utils.ts:459-519 *)

\* a plausible slip: the delimiters are searched in the whole path
PathToCursorWholePath(p, cursorPosition) == p

\* the portion of the path up to the cursor, utils.ts:469
PathToCursor(p, cursorPosition) == Substring(p, 0, cursorPosition)

\* which arm of the if / else-if chain of utils.ts:482-502 is taken
SegmentBranch(pathToCursor) ==
  LET lastDotIndex == LastIndexOf(pathToCursor, ".")
      lastOpenBracketIndex == LastIndexOf(pathToCursor, "[")
      lastCloseBracketIndex == LastIndexOf(pathToCursor, "]")
  IN  IF lastDotIndex > lastCloseBracketIndex THEN "property"
      ELSE IF lastOpenBracketIndex > lastCloseBracketIndex THEN "brackets"
      ELSE IF lastCloseBracketIndex > 0
              /\ lastCloseBracketIndex = Len(pathToCursor) - 1 THEN "closed"
      ELSE IF StartsWith(pathToCursor, "$") THEN "root"
      ELSE "default"

\* a plausible slip: the bracket arm keeps the opening bracket in parentPath
ParentPathKeepsBracket(p, pathToCursor, branch) ==
  CASE branch = "property" -> Substring(p, 0, LastIndexOf(pathToCursor, "."))
    [] branch = "brackets" -> Substring(p, 0, LastIndexOf(pathToCursor, "[") + 1)
    [] branch = "closed" -> Substring(p, 0, LastIndexOf(pathToCursor, "]") + 1)
    [] branch = "root" -> "$"
    [] OTHER -> ""

\* the parentPath each arm assigns, utils.ts:477,484,490,496,501
ParentPath(p, pathToCursor, branch) ==
  CASE branch = "property" -> Substring(p, 0, LastIndexOf(pathToCursor, "."))
    [] branch = "brackets" -> Substring(p, 0, LastIndexOf(pathToCursor, "["))
    [] branch = "closed" -> Substring(p, 0, LastIndexOf(pathToCursor, "]") + 1)
    [] branch = "root" -> "$"
    [] OTHER -> ""

\* the currentSegmentStart each arm assigns, utils.ts:476,483,489,495,500
SegmentStart(pathToCursor, branch) ==
  CASE branch = "property" -> LastIndexOf(pathToCursor, ".") + 1
    [] branch = "brackets" -> LastIndexOf(pathToCursor, "[") + 1
    [] branch = "closed" -> LastIndexOf(pathToCursor, "]") + 1
    [] branch = "root" -> 1
    [] OTHER -> 0

analyzeCurrentSegment(p, cursorPosition) ==
  LET pathToCursor == PathToCursor(p, cursorPosition)
      branch == SegmentBranch(pathToCursor)
      currentSegmentStart == SegmentStart(pathToCursor, branch)
  IN  [fullPath |-> p,
       currentSegmentStart |-> currentSegmentStart,
       currentSegmentEnd |-> Len(p),
       currentSegment |-> Substring(p, currentSegmentStart, cursorPosition),
       parentPath |-> ParentPath(p, pathToCursor, branch),
       isTypingProperty |-> (branch = "property"),
       isInBrackets |-> (branch = "brackets")]

\* value of `analysis` before any call
NoAnalysis == analyzeCurrentSegment("", 0)

\* characters of the path strings handed to the analyzer
AnalyzerChars == {"$", ".", "[", "]", "a"}

-----------------------------------------------------------------------------
(* parsePathSegments and commonPathLength, utils.ts:527-604 *)

\* the scanner's variables before the loop, utils.ts:560-564
ScanStart ==
  [segments |-> <<>>, currentSegment |-> "", inBrackets |-> FALSE,
   inQuotes |-> FALSE, quoteChar |-> ""]

\* a plausible slip: a dot cuts inside a quoted string as well
ScanCharCutsInQuotes(st, char) ==
  IF char = "[" /\ ~st.inQuotes THEN
    [st EXCEPT !.inBrackets = TRUE, !.currentSegment = @ \o char]
  ELSE IF char = "]" /\ ~st.inQuotes THEN
    [st EXCEPT !.inBrackets = FALSE, !.currentSegment = @ \o char]
  ELSE IF (char = "'" \/ char = "\"") /\ ~st.inQuotes THEN
    [st EXCEPT !.inQuotes = TRUE, !.quoteChar = char, !.currentSegment = @ \o char]
  ELSE IF char = st.quoteChar /\ st.inQuotes THEN
    [st EXCEPT !.inQuotes = FALSE, !.currentSegment = @ \o char]
  ELSE IF char = "." /\ ~st.inBrackets THEN
    IF st.currentSegment # ""
      THEN [st EXCEPT !.segments = Append(@, st.currentSegment), !.currentSegment = ""]
      ELSE st
  ELSE [st EXCEPT !.currentSegment = @ \o char]

\* one turn of the loop body, utils.ts:567-594
ScanChar(st, char) ==
  IF char = "[" /\ ~st.inQuotes THEN
    [st EXCEPT !.inBrackets = TRUE, !.currentSegment = @ \o char]
  ELSE IF char = "]" /\ ~st.inQuotes THEN
    [st EXCEPT !.inBrackets = FALSE, !.currentSegment = @ \o char]
  ELSE IF (char = "'" \/ char = "\"") /\ ~st.inQuotes THEN
    [st EXCEPT !.inQuotes = TRUE, !.quoteChar = char, !.currentSegment = @ \o char]
  ELSE IF char = st.quoteChar /\ st.inQuotes THEN
    [st EXCEPT !.inQuotes = FALSE, !.currentSegment = @ \o char]
  ELSE IF char = "." /\ ~st.inBrackets /\ ~st.inQuotes THEN
    IF st.currentSegment # ""
      THEN [st EXCEPT !.segments = Append(@, st.currentSegment), !.currentSegment = ""]
      ELSE st
  ELSE [st EXCEPT !.currentSegment = @ \o char]

\* the loop of utils.ts:566-595 over the characters of s
RECURSIVE ScanFrom(_, _)
ScanFrom(st, s) ==
  IF s = "" THEN st
  ELSE IF Len(s) = 1 THEN ScanChar(st, s)
  ELSE LET firstHalf == ScanFrom(st, SubSeq(s, 1, Len(s) \div 2))
       IN  IF firstHalf.inQuotes \in BOOLEAN
             THEN ScanFrom(firstHalf, SubSeq(s, Len(s) \div 2 + 1, Len(s)))
             ELSE firstHalf

\* a plausible slip: the root is put in front of rooted paths only
ParsePathSegmentsRootedOnly(p) ==
  IF p = "" THEN <<>>
  ELSE IF p = "$" THEN <<"$">>
  ELSE LET normalizedPath == IF StartsWith(p, "$") THEN SubstringFrom(p, 1) ELSE p
           st == ScanFrom(ScanStart, normalizedPath)
           segments == IF st.currentSegment # ""
                         THEN Append(st.segments, st.currentSegment)
                         ELSE st.segments
       IN  IF StartsWith(p, "$") THEN <<"$">> \o segments ELSE segments

\* utils.ts:549-604: empty path, bare root, then the scan
parsePathSegments(p) ==
  IF p = "" THEN <<>>
  ELSE IF p = "$" THEN <<"$">>
  ELSE LET normalizedPath == IF StartsWith(p, "$") THEN SubstringFrom(p, 1) ELSE p
           st == ScanFrom(ScanStart, normalizedPath)
           segments == IF st.currentSegment # ""
                         THEN Append(st.segments, st.currentSegment)
                         ELSE st.segments
       IN  <<"$">> \o segments

\* a plausible slip: a segment of the first path matches when the second
\* path's segment starts with it
RECURSIVE CommonFromPrefixMatch(_, _, _, _)
CommonFromPrefixMatch(segments1, segments2, i, minLength) ==
  IF i > minLength THEN 0
  ELSE IF StartsWith(segments2[i], segments1[i])
    THEN 1 + CommonFromPrefixMatch(segments1, segments2, i + 1, minLength)
    ELSE 0

\* the counting loop of utils.ts:535-541: the number of leading positions,
\* from position i on, at which the two segment lists agree
RECURSIVE CommonFrom(_, _, _, _)
CommonFrom(segments1, segments2, i, minLength) ==
  IF i > minLength THEN 0
  ELSE IF segments1[i] = segments2[i]
    THEN 1 + CommonFrom(segments1, segments2, i + 1, minLength)
    ELSE 0

\* a plausible slip: the count starts behind the root segment
CommonPathLengthBehindRoot(path1, path2) ==
  LET segments1 == parsePathSegments(path1)
      segments2 == parsePathSegments(path2)
  IN  CommonFrom(segments1, segments2, 2, Min(Len(segments1), Len(segments2)))

\* utils.ts:527-544
commonPathLength(path1, path2) ==
  LET segments1 == parsePathSegments(path1)
      segments2 == parsePathSegments(path2)
  IN  CommonFrom(segments1, segments2, 1, Min(Len(segments1), Len(segments2)))

-----------------------------------------------------------------------------
(* categorizeAndSortSuggestions, utils.ts:155-161, 613-716, 948-962 *)

SCHEMA_FIELD == 0
PROPERTY_ACCESS == 1
ARRAY_ACCESS == 2
SYNTAX_ELEMENT == 3
OTHER_CATEGORY == 4

DEFAULT_JSONPATH_PARTS ==
  <<"$", ".", "..", "[", "]", "*", "?", "(", ")", "@",
    "$.paths", "$.components", "$.info">>

\* Array.prototype.includes
SeqIncludes(seq, x) == \E i \in 1..Len(seq) : seq[i] = x

isSyntaxElement(suggestion) ==
  \/ SeqIncludes(<<".", ".*", ".**", "[*]", "[?()]", "@", "$..*">>, suggestion)
  \/ StartsWith(suggestion, "$.")

\* suggestion.split(/\.|\[|\]/).filter(Boolean), utils.ts:629: the non-empty
\* pieces between the separators; `piece` is the piece being read
SplitChar(st, char) ==
  IF char \in {".", "[", "]"}
    THEN [pieces |-> IF st.piece = "" THEN st.pieces ELSE Append(st.pieces, st.piece),
          piece |-> ""]
    ELSE [st EXCEPT !.piece = @ \o char]

RECURSIVE SplitFrom(_, _)
SplitFrom(st, s) ==
  IF s = "" THEN st
  ELSE IF Len(s) = 1 THEN SplitChar(st, s)
  ELSE LET firstHalf == SplitFrom(st, SubSeq(s, 1, Len(s) \div 2))
       IN  IF Len(firstHalf.piece) >= 0
             THEN SplitFrom(firstHalf, SubSeq(s, Len(s) \div 2 + 1, Len(s)))
             ELSE firstHalf

SplitSegments(suggestion) ==
  LET st == SplitFrom([pieces |-> <<>>, piece |-> ""], suggestion)
  IN  IF st.piece = "" THEN st.pieces ELSE Append(st.pieces, st.piece)

\* how many entries of seq equal x
CountIn(seq, x) == Cardinality({k \in 1..Len(seq) : seq[k] = x})

\* what the map callback adds to frequencyMap[key] on suggestions lo..hi,
\* utils.ts:629-632
RECURSIVE FrequencyAdded(_, _, _, _)
FrequencyAdded(suggs, lo, hi, key) ==
  IF lo > hi THEN 0
  ELSE IF lo = hi THEN CountIn(SplitSegments(suggs[lo]), key)
  ELSE FrequencyAdded(suggs, lo, (lo + hi) \div 2, key)
         + FrequencyAdded(suggs, (lo + hi) \div 2 + 1, hi, key)

\* frequencyMap.get(key) || 0 once the map callback has run on the first n
\* suggestions, utils.ts:624-632
FrequencyMapAfter(suggs, n, key) == FrequencyAdded(suggs, 1, n, key)

\* a plausible slip: importance grows with the length of a prefix match
MatchImportanceLongerFirst(suggestion) == 100 + Len(suggestion)

\* importance of a candidate that starts with the typed segment, utils.ts:648
MatchImportance(suggestion) == 100 - Len(suggestion)

\* a plausible slip: the `$.` test stands before the default-parts test
RootCategoryPrefixTestFirst(suggestion) ==
  IF StartsWith(suggestion, "$.") THEN
    [category |-> PROPERTY_ACCESS, importance |-> 80]
  ELSE IF SeqIncludes(DEFAULT_JSONPATH_PARTS, suggestion) THEN
    [category |-> SCHEMA_FIELD, importance |-> 100]
  ELSE [category |-> OTHER_CATEGORY, importance |-> 0]

\* category and importance of a root-level suggestion, utils.ts:673-679
RootCategory(suggestion) ==
  IF SeqIncludes(DEFAULT_JSONPATH_PARTS, suggestion) THEN
    [category |-> SCHEMA_FIELD, importance |-> 100]
  ELSE IF StartsWith(suggestion, "$.") THEN
    [category |-> PROPERTY_ACCESS, importance |-> 80]
  ELSE [category |-> OTHER_CATEGORY, importance |-> 0]

\* category and importance of one suggestion, utils.ts:635-680
Categorize(suggestion, currentPath, an) ==
  LET commonLength == commonPathLength(currentPath, suggestion)
      prefix == ToLowerCase(an.currentSegment)
  IN  IF an.isTypingProperty \/ an.isInBrackets THEN
        IF StartsWith(ToLowerCase(suggestion), prefix) THEN
          [category |-> SCHEMA_FIELD, importance |-> MatchImportance(suggestion)]
        ELSE IF an.parentPath # "" /\ StartsWith(suggestion, an.parentPath) THEN
          [category |-> PROPERTY_ACCESS,
           importance |-> 80 - (Len(suggestion) - Len(an.parentPath))]
        ELSE IF commonLength > 0 THEN
          [category |-> ARRAY_ACCESS,
           importance |-> 70 - (Len(suggestion) - commonLength)]
        ELSE IF isSyntaxElement(suggestion) THEN
          [category |-> SYNTAX_ELEMENT, importance |-> 50]
        ELSE IF Includes(suggestion, prefix) THEN
          [category |-> OTHER_CATEGORY, importance |-> 30]
        ELSE [category |-> OTHER_CATEGORY, importance |-> 0]
      ELSE IF currentPath = "$" \/ currentPath = "" THEN RootCategory(suggestion)
      ELSE [category |-> OTHER_CATEGORY, importance |-> 0]

\* the array built by suggestions.map, utils.ts:627-688: entry i is made when
\* the frequency map holds the segments of suggestions 1..i
CategorizedArray(suggs, currentPath, cursorPosition) ==
  LET an == analyzeCurrentSegment(currentPath, cursorPosition)
  IN  [i \in 1..Len(suggs) |->
        LET c == Categorize(suggs[i], currentPath, an)
        IN  [text |-> suggs[i],
             category |-> c.category,
             importance |-> c.importance,
             frequency |-> FrequencyMapAfter(suggs, i, suggs[i])]]

\* the comparator of utils.ts:691-704: negative when a sorts before b
SortCompare(a, b) ==
  IF a.category # b.category THEN a.category - b.category
  ELSE IF a.importance # b.importance THEN b.importance - a.importance
  ELSE b.frequency - a.frequency

\* a plausible slip: an unstable sort, which turns the entries that tie around
SortsBeforeTiesReversed(arr, j, i) ==
  \/ SortCompare(arr[j], arr[i]) < 0
  \/ SortCompare(arr[j], arr[i]) = 0 /\ j > i

\* entry j of arr stands before entry i after the sort: the comparator says
\* so, or it ties and j stood first (Array.prototype.sort is stable)
SortsBefore(arr, j, i) ==
  \/ SortCompare(arr[j], arr[i]) < 0
  \/ SortCompare(arr[j], arr[i]) = 0 /\ j < i

\* Array.prototype.sort with the comparator, utils.ts:691: every entry goes
\* to the place behind the entries that stand before it
SortWith(arr) ==
  LET place == [i \in 1..Len(arr) |->
                  1 + Cardinality({j \in 1..Len(arr) : SortsBefore(arr, j, i)})]
  IN  [n \in 1..Len(arr) |-> arr[CHOOSE i \in 1..Len(arr) : place[i] = n]]

\* a plausible slip: the result is de-duplicated (Array.from(new Set(...)))
SortArrayDedup(arr) ==
  SortWith(SelectSeq(arr, LAMBDA e :
             e = arr[CHOOSE i \in 1..Len(arr) : arr[i].text = e.text]))

SortArray(arr) == SortWith(arr)

\* the categorized array after the sort, utils.ts:627-704
SortedCategorized(suggs, currentPath, cursorPosition) ==
  SortArray(CategorizedArray(suggs, currentPath, cursorPosition))

\* sorted.map(s => s.text), utils.ts:707
Texts(arr) == [i \in 1..Len(arr) |-> arr[i].text]

categorizeAndSortSuggestions(suggs, currentPath, cursorPosition) ==
  IF Len(suggs) = 0 THEN <<>>
  ELSE Texts(SortedCategorized(suggs, currentPath, cursorPosition))

-----------------------------------------------------------------------------
(* Document trees: a JSON value is a record of its kind, its own keys in   *)
(* insertion order and the values under them                               *)

Undefined == [kind |-> "undefined", keys |-> <<>>, vals |-> <<>>]
Null == [kind |-> "null", keys |-> <<>>, vals |-> <<>>]
\* a non-empty string primitive of one character
Str == [kind |-> "string", keys |-> <<>>, vals |-> <<>>]
\* a non-zero number primitive
Num == [kind |-> "number", keys |-> <<>>, vals |-> <<>>]
Obj(keys, vals) == [kind |-> "object", keys |-> keys, vals |-> vals]
\* String(i) for the indices of the model's arrays
IndexKeys == <<"0", "1", "2", "3", "4", "5", "6">>
Arr(vals) == [kind |-> "array", keys |-> SubSeq(IndexKeys, 1, Len(vals)), vals |-> vals]

\* typeof v === 'object'
TypeofObject(v) == v.kind \in {"object", "array", "null"}

\* ToBoolean(v), for the values of the model
Truthy(v) == v.kind \notin {"undefined", "null"}

\* the outcome of evaluating an expression: a value, or a thrown TypeError
Value(v) == [thrown |-> FALSE, value |-> v]
Thrown == [thrown |-> TRUE, value |-> Undefined]

\* v[key]: reading a property of null or undefined throws TypeError; reading
\* an absent property of anything else gives undefined (the keys of the model
\* spell no member of Object.prototype)
GetProp(v, key) ==
  IF v.kind \in {"null", "undefined"} THEN Thrown
  ELSE IF \E k \in 1..Len(v.keys) : v.keys[k] = key
    THEN Value(v.vals[CHOOSE k \in 1..Len(v.keys) : v.keys[k] = key])
  ELSE IF key = "length" /\ v.kind \in {"array", "string"} THEN Value(Num)
  ELSE IF key = "0" /\ v.kind = "string" THEN Value(v)
  ELSE Value(Undefined)

-----------------------------------------------------------------------------
(* resolveSchemaPath, utils.ts:892-943 *)

\* buffer.replace(/^\./, '')
StripLeadingDot(buffer) ==
  IF StartsWith(buffer, ".") THEN SubstringFrom(buffer, 1) ELSE buffer

\* buffer.replace(/['"]/g, '')
RECURSIVE StripQuotes(_)
StripQuotes(buffer) ==
  IF Len(buffer) <= 1 THEN (IF buffer \in {"'", "\""} THEN "" ELSE buffer)
  ELSE StripQuotes(SubSeq(buffer, 1, Len(buffer) \div 2))
         \o StripQuotes(SubSeq(buffer, Len(buffer) \div 2 + 1, Len(buffer)))

\* the walker's variables before the loop, utils.ts:901-904; `returned` is
\* set by the return inside the loop and `thrown` by an indexing that throws
WalkStart(schema) ==
  [current |-> schema, buffer |-> "", inQuotes |-> FALSE, quoteChar |-> "",
   returned |-> FALSE, thrown |-> FALSE]

\* current = current[key], utils.ts:916,921,926,939
WalkIndex(st, key) ==
  LET got == GetProp(st.current, key)
  IN  IF got.thrown THEN [st EXCEPT !.thrown = TRUE, !.buffer = ""]
      ELSE [st EXCEPT !.current = got.value, !.buffer = ""]

\* one turn of the loop body, utils.ts:908-933 (none once the call has
\* returned or thrown)
WalkChar(st, char) ==
  LET after ==
        IF char \in {"'", "\""} /\ (~st.inQuotes \/ st.quoteChar = char) THEN
          [st EXCEPT !.inQuotes = ~@, !.quoteChar = char, !.buffer = @ \o char]
        ELSE IF char = "[" /\ ~st.inQuotes THEN
          IF st.buffer # "" THEN WalkIndex(st, StripLeadingDot(st.buffer)) ELSE st
        ELSE IF char = "]" /\ ~st.inQuotes THEN
          WalkIndex(st, StripQuotes(st.buffer))
        ELSE IF char = "." /\ ~st.inQuotes THEN
          IF st.buffer # "" THEN
            IF StripLeadingDot(st.buffer) # ""
              THEN WalkIndex(st, StripLeadingDot(st.buffer))
              ELSE [st EXCEPT !.buffer = ""]
          ELSE st
        ELSE [st EXCEPT !.buffer = @ \o char]
  IN  IF st.returned \/ st.thrown THEN st
      ELSE IF ~after.thrown /\ after.current = Undefined
        THEN [after EXCEPT !.returned = TRUE]
        ELSE after

\* the loop of utils.ts:907-934 over the characters of s
RECURSIVE WalkFrom(_, _)
WalkFrom(st, s) ==
  IF s = "" THEN st
  ELSE IF Len(s) = 1 THEN WalkChar(st, s)
  ELSE LET firstHalf == WalkFrom(st, SubSeq(s, 1, Len(s) \div 2))
       IN  IF firstHalf.returned \/ firstHalf.thrown
             THEN firstHalf
             ELSE WalkFrom(firstHalf, SubSeq(s, Len(s) \div 2 + 1, Len(s)))

resolveSchemaPath(schema, p) ==
  IF ~Truthy(schema) \/ p = "" THEN Value(Undefined)
  ELSE IF p = "$" THEN Value(schema)
  ELSE LET normalizedPath == IF StartsWith(p, "$") THEN SubstringFrom(p, 1) ELSE p
           st == WalkFrom(WalkStart(schema), normalizedPath)
           rest == IF st.buffer # "" /\ StripLeadingDot(st.buffer) # ""
                     THEN WalkIndex(st, StripLeadingDot(st.buffer))
                     ELSE st
       IN  IF st.thrown THEN Thrown
           ELSE IF st.returned THEN Value(Undefined)
           ELSE IF rest.thrown THEN Thrown
           ELSE Value(rest.current)

-----------------------------------------------------------------------------
(* Outcomes that are arrays of strings, and their composition *)

\* v[key] for a v that is neither null nor undefined
Prop(v, key) == GetProp(v, key).value

\* Object.keys(v)
ObjectKeys(v) == IF v.kind = "string" THEN <<"0">> ELSE v.keys

\* the pushes of r1 followed by those of r2; a throw in either ends the call
Then2(r1, r2) ==
  IF r1.thrown \/ r2.thrown THEN Thrown ELSE Value(r1.value \o r2.value)

RECURSIVE Flatten(_)
Flatten(results) ==
  IF results = <<>> THEN Value(<<>>)
  ELSE Then2(Head(results), Flatten(Tail(results)))

\* push(item) when cond holds
PushIf(cond, item) == Value(IF cond THEN <<item>> ELSE <<>>)

\* Array.from(new Set(arr)): the first occurrence of each string, in order
Dedup(arr) ==
  LET indexed == [i \in 1..Len(arr) |-> <<i, arr[i]>>]
      firsts == SelectSeq(indexed, LAMBDA e : \A j \in 1..(e[1] - 1) : arr[j] # e[2])
  IN  [n \in 1..Len(firsts) |-> firsts[n][2]]

-----------------------------------------------------------------------------
(* extractPropertyPaths, utils.ts:180-249 *)

\* a plausible slip: `openapi` is left out of the default names
RootSectionsWithoutOpenapi ==
  <<"info", "paths", "components", "tags", "servers", "externalDocs",
    "security", "webhooks">>

\* the default names, utils.ts:193-203
ROOT_SECTIONS ==
  <<"info", "paths", "components", "tags", "servers", "externalDocs",
    "security", "webhooks", "openapi">>

\* a plausible slip: the index entries are pushed for arrays of up to six
\* elements
IndexEntriesUpToSix(key, child) ==
  IF Len(child.vals) <= 6
    THEN [n \in 1..Len(child.vals) |-> key \o "[" \o IndexKeys[n] \o "]"]
    ELSE <<>>

\* the index-based entries of a small array, utils.ts:225-230
IndexEntries(key, child) ==
  IF Len(child.vals) <= 5
    THEN [n \in 1..Len(child.vals) |-> key \o "[" \o IndexKeys[n] \o "]"]
    ELSE <<>>

RECURSIVE extractPropertyPaths(_, _, _)
extractPropertyPaths(obj, parentPath, maxDepth) ==
  IF ~Truthy(obj) \/ ~TypeofObject(obj) \/ maxDepth <= 0 THEN <<>>
  ELSE
    LET seed == IF parentPath = "" THEN ROOT_SECTIONS ELSE <<>>
        ForKey(key) ==
          LET child == Prop(obj, key)
              childPath == IF parentPath # "" THEN parentPath \o "." \o key ELSE key
          IN  IF StartsWith(key, "$") \/ StartsWith(key, "_") THEN <<>>
              ELSE <<key>> \o
                (IF TypeofObject(child) /\ child.kind # "null" THEN
                   IF child.kind = "array" THEN
                     <<key \o "[*]">>
                     \o IndexEntries(key, child)
                     \o (IF Len(child.vals) > 0 /\ TypeofObject(child.vals[1])
                           THEN LET arrayChildPaths ==
                                      extractPropertyPaths(child.vals[1], "", maxDepth - 1)
                                IN  [n \in 1..Len(arrayChildPaths) |->
                                       key \o "[*]." \o arrayChildPaths[n]]
                           ELSE <<>>)
                   ELSE extractPropertyPaths(child, childPath, maxDepth - 1)
                 ELSE <<>>)
    IN  Dedup(seed \o Flatten([k \in 1..Len(ObjectKeys(obj)) |->
                                Value(ForKey(ObjectKeys(obj)[k]))]).value)

-----------------------------------------------------------------------------
(* extractOpenAPISpecificPaths, utils.ts:256-399 *)

HTTP_METHODS == <<"get", "post", "put", "delete", "options", "head", "patch", "trace">>

COMPONENT_SECTIONS ==
  <<"schemas", "responses", "parameters", "examples", "requestBodies",
    "headers", "securitySchemes", "links", "callbacks">>

\* one content type of a request body, utils.ts:304-324; `entry.schema` is
\* read whatever entry is
RequestContentPaths(contentBase, content, contentType) ==
  LET contentPath == contentBase \o "['" \o contentType \o "']"
      schemaRead == GetProp(Prop(content, contentType), "schema")
      bodySchema == schemaRead.value
      properties == Prop(bodySchema, "properties")
  IN  IF schemaRead.thrown THEN Thrown
      ELSE IF ~Truthy(bodySchema) THEN Value(<<contentPath>>)
      ELSE IF ~Truthy(properties) THEN Value(<<contentPath, contentPath \o ".schema">>)
      ELSE Value(<<contentPath, contentPath \o ".schema",
                   contentPath \o ".schema.properties">>
                 \o [n \in 1..Len(ObjectKeys(properties)) |->
                       contentPath \o ".schema.properties." \o ObjectKeys(properties)[n]])

\* the request body of an operation, utils.ts:296-326
RequestBodyPaths(base, operation) ==
  LET requestBody == Prop(operation, "requestBody")
      content == Prop(requestBody, "content")
  IN  IF ~Truthy(requestBody) THEN Value(<<>>)
      ELSE IF ~Truthy(content) THEN Value(<<base \o ".requestBody">>)
      ELSE Then2(Value(<<base \o ".requestBody", base \o ".requestBody.content">>),
                 Flatten([k \in 1..Len(ObjectKeys(content)) |->
                           RequestContentPaths(base \o ".requestBody.content",
                                               content, ObjectKeys(content)[k])]))

\* one content type of a response, utils.ts:343-350
ResponseContentPaths(responsePath, content, contentType) ==
  LET entryPath == responsePath \o ".content['" \o contentType \o "']"
      schemaRead == GetProp(Prop(content, contentType), "schema")
  IN  IF schemaRead.thrown THEN Thrown
      ELSE IF Truthy(schemaRead.value) THEN Value(<<entryPath, entryPath \o ".schema">>)
      ELSE Value(<<entryPath>>)

\* one response code of an operation, utils.ts:332-352; `response.content` is
\* read whatever response is
ResponsePaths(base, responses, code) ==
  LET responsePath == base \o ".responses['" \o code \o "']"
      contentRead == GetProp(Prop(responses, code), "content")
      content == contentRead.value
  IN  IF contentRead.thrown THEN Thrown
      ELSE IF ~Truthy(content) THEN Value(<<responsePath>>)
      ELSE Then2(Value(<<responsePath, responsePath \o ".content">>),
                 Flatten([k \in 1..Len(ObjectKeys(content)) |->
                           ResponseContentPaths(responsePath, content,
                                                ObjectKeys(content)[k])]))

\* the responses of an operation, utils.ts:327-353
ResponsesPaths(base, operation) ==
  LET responses == Prop(operation, "responses")
  IN  IF ~Truthy(responses) THEN Value(<<>>)
      ELSE Then2(Value(<<base \o ".responses">>),
                 Flatten([k \in 1..Len(ObjectKeys(responses)) |->
                           ResponsePaths(base, responses, ObjectKeys(responses)[k])]))

\* one method of a path item, utils.ts:285-355
OperationPaths(escapedPath, pathItem, method) ==
  LET base == escapedPath \o "." \o method
      operation == Prop(pathItem, method)
  IN  Flatten(<<Value(<<base>>),
                PushIf(Truthy(Prop(operation, "operationId")), base \o ".operationId"),
                PushIf(Truthy(Prop(operation, "parameters")), base \o ".parameters"),
                RequestBodyPaths(base, operation),
                ResponsesPaths(base, operation)>>)

\* one key of schema.paths, utils.ts:271-357
PathKeyPaths(pathsObject, pathKey) ==
  LET escapedPath == IF Includes(pathKey, "/")
                       THEN "$.paths['" \o pathKey \o "']"
                       ELSE "$.paths." \o pathKey
      pathItem == Prop(pathsObject, pathKey)
      methods == SelectSeq(HTTP_METHODS, LAMBDA method : Truthy(Prop(pathItem, method)))
  IN  IF Truthy(pathItem) /\ TypeofObject(pathItem)
        THEN Then2(Value(<<escapedPath>>),
                   Flatten([k \in 1..Len(methods) |->
                             OperationPaths(escapedPath, pathItem, methods[k])]))
        ELSE Value(<<escapedPath>>)

\* one component of a section, utils.ts:377-393
ComponentPaths(components, section, component) ==
  LET base == "$.components." \o section \o "." \o component
      entry == Prop(Prop(components, section), component)
      properties == IF Truthy(entry) THEN Prop(entry, "properties") ELSE Undefined
  IN  IF section = "schemas" /\ Truthy(entry) /\ Truthy(properties)
        THEN Value(<<base, base \o ".properties">>
                   \o [n \in 1..Len(ObjectKeys(properties)) |->
                         base \o ".properties." \o ObjectKeys(properties)[n]])
        ELSE Value(<<base>>)

\* a plausible slip: the section's own path is pushed inside the loop, once
\* for every component
SectionPathsPushedPerComponent(components, section) ==
  IF Truthy(Prop(components, section))
    THEN Flatten([k \in 1..Len(ObjectKeys(Prop(components, section))) |->
                   Then2(Value(<<"$.components." \o section>>),
                         ComponentPaths(components, section,
                                        ObjectKeys(Prop(components, section))[k]))])
    ELSE Value(<<>>)

\* one section of schema.components, utils.ts:371-395
SectionPaths(components, section) ==
  IF Truthy(Prop(components, section))
    THEN Then2(Value(<<"$.components." \o section>>),
               Flatten([k \in 1..Len(ObjectKeys(Prop(components, section))) |->
                         ComponentPaths(components, section,
                                        ObjectKeys(Prop(components, section))[k])]))
    ELSE Value(<<>>)

extractOpenAPISpecificPaths(schema) ==
  IF ~Truthy(schema) \/ ~TypeofObject(schema) THEN Value(<<>>)
  ELSE
    LET pathsObject == Prop(schema, "paths")
        components == Prop(schema, "components")
    IN  Then2(
          IF Truthy(pathsObject)
            THEN Then2(Value(<<"$.paths">>),
                       Flatten([k \in 1..Len(ObjectKeys(pathsObject)) |->
                                 PathKeyPaths(pathsObject, ObjectKeys(pathsObject)[k])]))
            ELSE Value(<<>>),
          IF Truthy(components)
            THEN Then2(Value(<<"$.components">>),
                       Flatten([k \in 1..Len(COMPONENT_SECTIONS) |->
                                 SectionPaths(components, COMPONENT_SECTIONS[k])]))
            ELSE Value(<<>>))

-----------------------------------------------------------------------------
(* getCommonJSONPathExpressions, generatePathSuggestions and               *)
(* getContextualSuggestions, utils.ts:405-451, 725-765, 799-883            *)

getCommonJSONPathExpressions ==
  <<"$", "$.info", "$.info.title", "$.info.version", "$.info.description",
    "$.paths", "$.components", "$.tags", "$.servers",
    "$.paths.*", "$.paths.*.*", "$.paths.*.get", "$.paths.*.post",
    "$.paths.*.put", "$.paths.*.delete", "$.paths.*.parameters",
    "$.components.schemas", "$.components.responses", "$.components.parameters",
    "$.components.examples", "$.components.requestBodies", "$.components.headers",
    "$.components.securitySchemes", "$.components.links", "$.components.callbacks",
    "$..description", "$..schema", "$..type", "$..properties", "$..items",
    "$..required", "$..parameters", "$..responses", "$..operationId",
    "$..summary", "$..tags">>

\* the filter of utils.ts:748-761
SuggestionPasses(suggestion, inputPath, an) ==
  IF an.isTypingProperty /\ an.currentSegment # "" THEN
    Includes(ToLowerCase(suggestion), ToLowerCase(an.currentSegment))
  ELSE IF an.isInBrackets /\ an.currentSegment # "" THEN
    Includes(ToLowerCase(suggestion), ToLowerCase(an.currentSegment))
  ELSE Includes(ToLowerCase(suggestion), ToLowerCase(inputPath))

generatePathSuggestions(schema, inputPath, cursorPosition) ==
  LET specPaths == extractOpenAPISpecificPaths(schema)
      allSuggestions ==
        Dedup(getCommonJSONPathExpressions
              \o extractPropertyPaths(schema, "", 3)
              \o specPaths.value)
      an == analyzeCurrentSegment(inputPath, cursorPosition)
      filtered ==
        SelectSeq(allSuggestions, LAMBDA t : SuggestionPasses(t, inputPath, an))
  IN  IF specPaths.thrown THEN Thrown
      ELSE IF inputPath = "" THEN Value(categorizeAndSortSuggestions(allSuggestions, "$", 1))
      ELSE Value(categorizeAndSortSuggestions(filtered, inputPath,
                                              cursorPosition))

COMMON_OPENAPI_PROPS ==
  <<"type", "properties", "items", "required", "description", "format">>

\* a plausible slip: the key gets its dot while a property is being typed too
FormatKeyAlwaysDotted(k, an) ==
  IF an.isInBrackets THEN
    IF Includes(k, " ") \/ Includes(k, "-") \/ Includes(k, "/")
      THEN "'" \o k \o "'" ELSE k
  ELSE "." \o k

\* formatKey, utils.ts:853-858
FormatKey(k, an) ==
  IF an.isInBrackets THEN
    IF Includes(k, " ") \/ Includes(k, "-") \/ Includes(k, "/")
      THEN "'" \o k \o "'" ELSE k
  ELSE IF an.isTypingProperty THEN k ELSE "." \o k

\* the body of the `if (parent && typeof parent === 'object')` block,
\* utils.ts:823-875
ParentSuggestions(parent, an) ==
  LET keys == SelectSeq(ObjectKeys(parent),
                        LAMBDA k : ~StartsWith(k, "$") /\ ~StartsWith(k, "_"))
      schemaFields == SelectSeq(keys, LAMBDA k : ~SeqIncludes(COMMON_OPENAPI_PROPS, k))
      commonProps == SelectSeq(keys, LAMBDA k : SeqIncludes(COMMON_OPENAPI_PROPS, k))
      syntaxElements ==
        IF an.currentSegment = ""
          THEN (IF parent.kind = "array" THEN <<"[*]", "[0]">> ELSE <<>>)
               \o <<".*", ".**", "..">>
          ELSE <<>>
      contextualSuggestions ==
        [n \in 1..Len(schemaFields) |-> FormatKey(schemaFields[n], an)]
        \o [n \in 1..Len(commonProps) |-> FormatKey(commonProps[n], an)]
        \o syntaxElements
  IN  IF an.currentSegment # ""
        THEN SelectSeq(contextualSuggestions,
                       LAMBDA t : StartsWith(ToLowerCase(t), ToLowerCase(an.currentSegment)))
        ELSE contextualSuggestions

getContextualSuggestions(schema, currentPath, cursorPosition) ==
  IF currentPath = "" \/ ~Truthy(schema) THEN Value(DEFAULT_JSONPATH_PARTS)
  ELSE IF currentPath = "$"
    THEN Value(<<".info", ".paths", ".components", ".tags", ".servers">>)
  ELSE
    LET an == analyzeCurrentSegment(currentPath, cursorPosition)
        parent == resolveSchemaPath(schema, an.parentPath)
    IN  IF ~parent.thrown /\ Truthy(parent.value) /\ TypeofObject(parent.value)
          THEN Value(ParentSuggestions(parent.value, an))
          ELSE generatePathSuggestions(schema, currentPath, cursorPosition)

-----------------------------------------------------------------------------
(* Specification SpecAnalyze: one call of analyzeCurrentSegment on a path  *)
(* and a cursor position inside it                                         *)

InitAnalyze ==
  /\ op = "start"
  /\ NoInput
  /\ NoLists
  /\ path \in StringsUpTo(AnalyzerChars, MaxPathLen)
  /\ cursor \in 0..Len(path)
  /\ doc = <<>>
  /\ suggestions = <<>>
  /\ analysis = NoAnalysis
  /\ categorized = <<>>
  /\ ranked = <<>>
  /\ reranked = <<>>
  /\ resolved = <<>>
  /\ contextual = <<>>

Analyze ==
  /\ op = "start"
  /\ analysis' = analyzeCurrentSegment(path, cursor)
  /\ op' = "analyzed"
  /\ UNCHANGED <<inputVars, listVars>>
  /\ UNCHANGED <<doc, path, cursor, suggestions, categorized, ranked, reranked,
                 resolved, contextual>>

NextAnalyze == Analyze

SpecAnalyze == InitAnalyze /\ [][NextAnalyze]_vars

-----------------------------------------------------------------------------
(* Specification SpecRank: one call of categorizeAndSortSuggestions on an  *)
(* array of candidates, then a second call on its result                   *)

\* the candidate strings the arrays are made of
SuggestionPool ==
  {"info", "paths", "parameters", "$.info", "$.tags", ".*"}

\* the currentPath arguments; the cursor stands anywhere inside
RankPaths == {"", "$", "$.pa", "$.info.", "$.paths["}

\* all arrays over `pool` of length at most n
RECURSIVE ArraysUpTo(_, _)
ArraysUpTo(pool, n) ==
  IF n = 0 THEN {<<>>}
  ELSE LET shorter == ArraysUpTo(pool, n - 1)
       IN  shorter \cup {Append(a, x) : a \in shorter, x \in pool}

InitRank ==
  /\ op = "start"
  /\ NoInput
  /\ NoLists
  /\ suggestions \in ArraysUpTo(SuggestionPool, MaxSuggestions)
  /\ path \in RankPaths
  /\ cursor \in 0..Len(path)
  /\ doc = <<>>
  /\ analysis = NoAnalysis
  /\ categorized = <<>>
  /\ ranked = <<>>
  /\ reranked = <<>>
  /\ resolved = <<>>
  /\ contextual = <<>>

\* categorizeAndSortSuggestions(suggestions, path, cursor)
Rank ==
  /\ op = "start"
  /\ analysis' = analyzeCurrentSegment(path, cursor)
  /\ categorized' = IF Len(suggestions) = 0 THEN <<>>
                    ELSE SortedCategorized(suggestions, path, cursor)
  /\ ranked' = categorizeAndSortSuggestions(suggestions, path, cursor)
  /\ op' = "ranked"
  /\ UNCHANGED <<inputVars, listVars>>
  /\ UNCHANGED <<doc, path, cursor, suggestions, reranked, resolved, contextual>>

\* categorizeAndSortSuggestions(ranked, path, cursor)
RankAgain ==
  /\ op = "ranked"
  /\ reranked' = categorizeAndSortSuggestions(ranked, path, cursor)
  /\ op' = "reranked"
  /\ UNCHANGED <<inputVars, listVars>>
  /\ UNCHANGED <<doc, path, cursor, suggestions, analysis, categorized, ranked,
                 resolved, contextual>>

NextRank == Rank \/ RankAgain

SpecRank == InitRank /\ [][NextRank]_vars

-----------------------------------------------------------------------------
(* Specification SpecResolve: one call of resolveSchemaPath on a document  *)
(* and a path                                                              *)

\* the documents handed to the resolver: {}, {a: {b: "x"}}, {a: null},
\* {a: ["x"], b: {a: null}}
ResolveDocs ==
  {Obj(<<>>, <<>>),
   Obj(<<"a">>, <<Obj(<<"b">>, <<Str>>)>>),
   Obj(<<"a">>, <<Null>>),
   Obj(<<"a", "b">>, <<Arr(<<Str>>), Obj(<<"a">>, <<Null>>)>>)}

\* the pieces the path strings are made of
ResolveTokens == {"$", ".", "a", "b", ".a", ".b", "[", "]", "'", "0", "*", "[?(@.a)]"}

\* all concatenations of at most n tokens
RECURSIVE TokenStrings(_, _)
TokenStrings(tokens, n) ==
  IF n = 0 THEN {""}
  ELSE LET shorter == TokenStrings(tokens, n - 1)
       IN  shorter \cup {s \o t : s \in shorter, t \in tokens}

InitResolve ==
  /\ op = "start"
  /\ NoInput
  /\ NoLists
  /\ doc \in ResolveDocs
  /\ path \in TokenStrings(ResolveTokens, MaxResolveTokens)
  /\ cursor = Len(path)
  /\ suggestions = <<>>
  /\ analysis = NoAnalysis
  /\ categorized = <<>>
  /\ ranked = <<>>
  /\ reranked = <<>>
  /\ resolved = Value(Undefined)
  /\ contextual = <<>>

\* resolveSchemaPath(doc, path)
Resolve ==
  /\ op = "start"
  /\ resolved' = resolveSchemaPath(doc, path)
  /\ op' = "resolved"
  /\ UNCHANGED <<inputVars, listVars>>
  /\ UNCHANGED <<doc, path, cursor, suggestions, analysis, categorized, ranked,
                 reranked, contextual>>

NextResolve == Resolve

SpecResolve == InitResolve /\ [][NextResolve]_vars

-----------------------------------------------------------------------------
(* Specification SpecContextual: one call of getContextualSuggestions on a *)
(* document, a path and a cursor position inside it                        *)

\* {info: {title: "x"},
\*  paths: {"/pets": {get: {operationId: "x",
\*                          responses: {"200": {content: {"a/b": {schema: {type: "x"}}}}}}}}}
PetsDoc ==
  Obj(<<"info", "paths">>,
      <<Obj(<<"title">>, <<Str>>),
        Obj(<<"/pets">>,
            <<Obj(<<"get">>,
                  <<Obj(<<"operationId", "responses">>,
                        <<Str,
                          Obj(<<"200">>,
                              <<Obj(<<"content">>,
                                    <<Obj(<<"a/b">>,
                                          <<Obj(<<"schema">>,
                                                <<Obj(<<"type">>, <<Str>>)>>)>>)>>)>>)>>)>>)>>)>>)

\* {paths: {"/pets": {get: {responses: {"200": null}}}}}
NullResponseDoc ==
  Obj(<<"paths">>,
      <<Obj(<<"/pets">>,
            <<Obj(<<"get">>,
                  <<Obj(<<"responses">>, <<Obj(<<"200">>, <<Null>>)>>)>>)>>)>>)

\* {info: null, tags: [{name: "x"}]}
NullInfoDoc ==
  Obj(<<"info", "tags">>, <<Null, Arr(<<Obj(<<"name">>, <<Str>>)>>)>>)

ContextDocs == {Obj(<<>>, <<>>), PetsDoc, NullResponseDoc, NullInfoDoc}

\* the pieces the path strings are made of
ContextTokens == {"$", ".", ".info", ".paths", ".tags", ".t", "x", "[", "]", "$.info.x."}

InitContextual ==
  /\ op = "start"
  /\ NoInput
  /\ NoLists
  /\ doc \in ContextDocs
  /\ path \in TokenStrings(ContextTokens, MaxContextTokens)
  /\ cursor \in 0..Len(path)
  /\ suggestions = <<>>
  /\ analysis = NoAnalysis
  /\ categorized = <<>>
  /\ ranked = <<>>
  /\ reranked = <<>>
  /\ resolved = Value(Undefined)
  /\ contextual = Value(<<>>)

\* getContextualSuggestions(doc, path, cursor)
Contextual ==
  /\ op = "start"
  /\ analysis' = analyzeCurrentSegment(path, cursor)
  /\ resolved' = resolveSchemaPath(doc, analyzeCurrentSegment(path, cursor).parentPath)
  /\ contextual' = getContextualSuggestions(doc, path, cursor)
  /\ op' = "contextual"
  /\ UNCHANGED <<inputVars, listVars>>
  /\ UNCHANGED <<doc, path, cursor, suggestions, categorized, ranked, reranked>>

NextContextual == Contextual

SpecContextual == InitContextual /\ [][NextContextual]_vars

-----------------------------------------------------------------------------
(* Specification SpecKeys: one call of getContextualSuggestions on the     *)
(* documents and paths that bring out the keys of the parent object        *)

\* {type: "s", "x-a": "s", $ref: "s", _i: "s", Tags: "s", tags: ["s", "s"]}
KeysDoc ==
  Obj(<<"type", "x-a", "$ref", "_i", "Tags", "tags">>,
      <<Str, Str, Str, Str, Str, Arr(<<Str, Str>>)>>)

KeyDocs == {KeysDoc, PetsDoc, Null}

\* the pieces the path strings are made of
KeyTokens == {"$", "$.", "$[", "$.tags", "$.tags.", "[", "]", "t", "T"}

InitKeys ==
  /\ op = "start"
  /\ NoInput
  /\ NoLists
  /\ doc \in KeyDocs
  /\ path \in TokenStrings(KeyTokens, MaxKeyTokens)
  /\ cursor \in 0..Len(path)
  /\ suggestions = <<>>
  /\ analysis = NoAnalysis
  /\ categorized = <<>>
  /\ ranked = <<>>
  /\ reranked = <<>>
  /\ resolved = Value(Undefined)
  /\ contextual = Value(<<>>)

SpecKeys == InitKeys /\ [][NextContextual]_vars

-----------------------------------------------------------------------------
(* The JSONPathAutocomplete component, src/unnamed/part_001                *)
(*                                                                         *)
(* Specification SpecInput: the mounted component under keystrokes, cursor *)
(* moves, key events, clicks on the list and timer expirations. The host   *)
(* keeps its props; every call of onChange is recorded in onChangeCalls.   *)
(* A pending timer is a record [id, kind, value, edit]: `value` is what    *)
(* the callback closed over, `edit` the number of the keystroke or         *)
(* selection that armed it.                                                *)

\* filtered.slice(0, 100), part_001:52
MaxShown == 100

\* the suggestions prop
SuggestionsProp == <<"$.i", ".p", "/x">>

\* the value prop at mount
ValueProps == {"", "$"}

\* what a keystroke can leave in the input: the text (e.target.value) and the
\* caret behind the character typed or deleted (e.target.selectionStart)
Keystrokes == {<<"", 0>>, <<"$", 1>>, <<"$.p", 3>>, <<"$[x", 3>>}

\* setTimeout: the pending callbacks with the new one
SetTimeout(ts, id, kind, value, edit) ==
  ts \cup {[id |-> id, kind |-> kind, value |-> value, edit |-> edit]}

\* a plausible slip: the previous timer is left pending
ClearTimeoutKeepsPending(ts, id) == ts

\* clearTimeout(id): nothing happens when no such timer is pending
ClearTimeout(ts, id) == {t \in ts : t.id # id}

\* Array.prototype.slice(0, end)
Slice(arr, end) == SubSeq(arr, 1, Min(Len(arr), end))

\* what filterSuggestions puts on display for a non-empty input, part_001:46-54
FilterSuggestions(value, cursorPos) ==
  Slice(categorizeAndSortSuggestions(SuggestionsProp, value, cursorPos), MaxShown)

\* the effect of part_001:38-61 after a handler has set inputValue' and
\* cursorPositionState': it runs when one of them has changed; `highlighted`
\* is the highlightedIndex the handler leaves
FilterEffect(highlighted) ==
  IF <<inputValue', cursorPositionState'>> = <<inputValue, cursorPositionState>>
    THEN /\ filteredSuggestions' = filteredSuggestions
         /\ highlightedIndex' = highlighted
  ELSE IF inputValue' = ""
    THEN /\ filteredSuggestions' = <<>>
         /\ highlightedIndex' = highlighted
  ELSE /\ filteredSuggestions' = FilterSuggestions(inputValue', cursorPositionState')
       /\ highlightedIndex' = IF Len(filteredSuggestions') > 0 THEN 0 ELSE -1

\* the state after mount: useState initial values, then the effects
InitInput ==
  /\ op = "mounted"
  /\ NoLists
  /\ doc = <<>>
  /\ path = ""
  /\ cursor = 0
  /\ suggestions = SuggestionsProp
  /\ analysis = NoAnalysis
  /\ categorized = <<>>
  /\ ranked = <<>>
  /\ reranked = <<>>
  /\ resolved = <<>>
  /\ contextual = <<>>
  /\ inputValue \in ValueProps
  /\ cursorPositionState = 0
  /\ showSuggestions = FALSE
  /\ filteredSuggestions =
       IF inputValue = "" THEN <<>> ELSE FilterSuggestions(inputValue, 0)
  /\ highlightedIndex = IF Len(filteredSuggestions) = 0 THEN -1 ELSE 0
  /\ debouncedChangeTimeout = 0
  /\ timers = {}
  /\ nextTimer = 1
  /\ onChangeCalls = <<>>
  /\ edits = 0
  /\ lastKeystroke = ""

\* handleInputChange, part_001:63-81, for a keystroke that leaves newValue in
\* the input with the caret at selectionStart
HandleInputChange(newValue, selectionStart) ==
  /\ edits < MaxEdits
  /\ inputValue' = newValue
  /\ cursorPositionState' = selectionStart
  /\ showSuggestions' = TRUE
  /\ timers' = SetTimeout(IF debouncedChangeTimeout # 0
                            THEN ClearTimeout(timers, debouncedChangeTimeout)
                            ELSE timers,
                          nextTimer, "debounce", newValue, edits + 1)
  /\ debouncedChangeTimeout' = nextTimer
  /\ nextTimer' = nextTimer + 1
  /\ edits' = edits + 1
  /\ lastKeystroke' = newValue
  /\ FilterEffect(highlightedIndex)
  /\ UNCHANGED <<callVars, listVars, onChangeCalls>>

\* the text handleSelect puts into brackets, part_001:105-111
InsertText(suggestion) ==
  IF ~StartsWith(suggestion, "'")
     /\ (Includes(suggestion, " ") \/ Includes(suggestion, "-")
         \/ Includes(suggestion, "/"))
    THEN "'" \o suggestion \o "'"
    ELSE suggestion

\* the insertion scenarios of handleSelect, part_001:85-144: `shown` is the
\* argument of setInputValue, `newInputValue` and `newCursorPosition` are the
\* local variables of these names when the if / else chain is left
SelectOutcome(value, cursorPos, suggestion) ==
  LET an == analyzeCurrentSegment(value, cursorPos)
      replaced == Substring(value, 0, an.currentSegmentStart) \o suggestion
                    \o SubstringFrom(value, cursorPos)
      bracketed == Substring(value, 0, an.currentSegmentStart)
                     \o InsertText(suggestion) \o SubstringFrom(value, cursorPos)
      inserted == Substring(value, 0, cursorPos) \o suggestion
                    \o SubstringFrom(value, cursorPos)
  IN  IF an.isTypingProperty THEN
        [shown |-> replaced, newInputValue |-> replaced,
         newCursorPosition |-> an.currentSegmentStart + Len(suggestion)]
      ELSE IF an.isInBrackets THEN
        [shown |-> bracketed, newInputValue |-> bracketed,
         newCursorPosition |-> an.currentSegmentStart + Len(InsertText(suggestion))]
      ELSE IF StartsWith(suggestion, "$") THEN
        [shown |-> suggestion, newInputValue |-> value,
         newCursorPosition |-> Len(suggestion)]
      ELSE IF value = "$" /\ StartsWith(suggestion, ".") THEN
        [shown |-> value \o suggestion, newInputValue |-> value,
         newCursorPosition |-> Len(value) + Len(suggestion)]
      ELSE
        [shown |-> inserted, newInputValue |-> inserted,
         newCursorPosition |-> cursorPos + Len(suggestion)]

\* handleSelect, part_001:83-158
HandleSelect(suggestion) ==
  LET outcome == SelectOutcome(inputValue, cursorPositionState, suggestion)
  IN  /\ edits < MaxEdits
      /\ inputValue' = outcome.shown
      /\ onChangeCalls' = Append(onChangeCalls,
                                 [by |-> "select", value |-> outcome.newInputValue,
                                  edit |-> edits + 1])
      /\ showSuggestions' = FALSE
      /\ timers' = SetTimeout(timers, nextTimer, "cursor",
                              outcome.newCursorPosition, edits + 1)
      /\ nextTimer' = nextTimer + 1
      /\ edits' = edits + 1
      /\ cursorPositionState' = cursorPositionState
      /\ FilterEffect(highlightedIndex)
      /\ UNCHANGED <<callVars, listVars, debouncedChangeTimeout, lastKeystroke>>

\* the list is closed or empty, part_001:162
ListHidden == ~showSuggestions \/ Len(filteredSuggestions) = 0

\* a suggestion is selected, part_001:187-193, 275-285: entry i of the open
\* list is clicked (Enter and Tab select the highlighted one, see EnterOrTab)
SelectSuggestion ==
  /\ ~ListHidden
  /\ \E i \in 0..(Len(filteredSuggestions) - 1) :
       HandleSelect(filteredSuggestions[i + 1])

\* handleKeyDown for Enter and Tab while the list is open, part_001:187-193:
\* the highlighted entry is selected when highlightedIndex >= 0
EnterOrTab ==
  /\ ~ListHidden
  /\ highlightedIndex >= 0
  /\ HandleSelect(filteredSuggestions[highlightedIndex + 1])

\* handleKeyDown while the list is closed or empty, part_001:162-170: Tab
\* opens the list, every other key changes nothing
TabOpens ==
  /\ ListHidden
  /\ showSuggestions' = TRUE
  /\ UNCHANGED <<callVars, listVars, inputValue, cursorPositionState, filteredSuggestions,
                 highlightedIndex, debouncedChangeTimeout, timers, nextTimer,
                 onChangeCalls, edits, lastKeystroke>>

\* handleKeyDown for ArrowDown and ArrowUp, part_001:173-185
Arrow ==
  /\ ~ListHidden
  /\ \E next \in {IF highlightedIndex < Len(filteredSuggestions) - 1
                    THEN highlightedIndex + 1 ELSE 0,
                  IF highlightedIndex > 0
                    THEN highlightedIndex - 1 ELSE Len(filteredSuggestions) - 1} :
       highlightedIndex' = next
  /\ UNCHANGED <<callVars, listVars, inputValue, cursorPositionState, showSuggestions,
                 filteredSuggestions, debouncedChangeTimeout, timers, nextTimer,
                 onChangeCalls, edits, lastKeystroke>>

\* handleKeyDown for Escape, part_001:195-198
Escape ==
  /\ ~ListHidden
  /\ showSuggestions' = FALSE
  /\ UNCHANGED <<callVars, listVars, inputValue, cursorPositionState, filteredSuggestions,
                 highlightedIndex, debouncedChangeTimeout, timers, nextTimer,
                 onChangeCalls, edits, lastKeystroke>>

\* onFocus, onClick and onSelect of the input, part_001:262-270: the caret,
\* put at the start or at the end of the text, is stored; a focus or a click
\* also opens the list
MoveCursor ==
  /\ \E selectionStart \in {0, Len(inputValue)} :
       cursorPositionState' = selectionStart
  /\ showSuggestions' \in {showSuggestions, TRUE}
  /\ inputValue' = inputValue
  /\ FilterEffect(highlightedIndex)
  /\ UNCHANGED <<callVars, listVars, debouncedChangeTimeout, timers, nextTimer,
                 onChangeCalls, edits, lastKeystroke>>

\* the callback of part_001:78-80 runs
DebounceFire ==
  \E t \in timers :
    /\ t.kind = "debounce"
    /\ onChangeCalls' = Append(onChangeCalls,
                               [by |-> "debounce", value |-> t.value, edit |-> t.edit])
    /\ timers' = timers \ {t}
    /\ UNCHANGED <<callVars, listVars, inputValue, cursorPositionState, showSuggestions,
                   filteredSuggestions, highlightedIndex, debouncedChangeTimeout,
                   nextTimer, edits, lastKeystroke>>

\* the callback of part_001:151-157 runs (the input is mounted)
CursorFire ==
  \E t \in timers :
    /\ t.kind = "cursor"
    /\ cursorPositionState' = t.value
    /\ timers' = timers \ {t}
    /\ inputValue' = inputValue
    /\ FilterEffect(highlightedIndex)
    /\ UNCHANGED <<callVars, listVars, showSuggestions, debouncedChangeTimeout, nextTimer,
                   onChangeCalls, edits, lastKeystroke>>

Keystroke ==
  \E key \in Keystrokes : HandleInputChange(key[1], key[2])

NextInput ==
  \/ Keystroke
  \/ SelectSuggestion
  \/ EnterOrTab
  \/ TabOpens
  \/ Arrow
  \/ Escape
  \/ MoveCursor
  \/ DebounceFire
  \/ CursorFire

\* the event loop runs the debounce callback once its delay has passed
SpecInput == InitInput /\ [][NextInput]_vars /\ WF_vars(DebounceFire)

-----------------------------------------------------------------------------
(* Calls of parsePathSegments and commonPathLength *)

\* the characters the tokenizer tells apart, and one it does not
TokenizerChars == {"$", ".", "[", "]", "'", "\"", "a"}

\* the paths parsePathSegments is handed
ScanPaths == StringsUpTo(TokenizerChars, MaxScanLen)

\* the second paths commonPathLength is handed
OtherPaths == {"", "$", "a", "$.a", "aa.a", "$.a.a", "$['.'].a", "a[a.a"}

InitTokenize ==
  /\ op = "start"
  /\ doc = <<>>
  /\ path \in ScanPaths
  /\ cursor = 0
  /\ suggestions = <<>>
  /\ analysis = NoAnalysis
  /\ categorized = <<>>
  /\ ranked = <<>>
  /\ reranked = <<>>
  /\ resolved = <<>>
  /\ contextual = <<>>
  /\ NoInput
  /\ otherPath \in OtherPaths
  /\ pathSegments = <<>>
  /\ otherSegments = <<>>
  /\ commonResult = 0
  /\ reversedResult = 0
  /\ extracted = <<>>
  /\ specificPaths = <<>>

\* parsePathSegments on either path and commonPathLength in both orders
Tokenize ==
  /\ op = "start"
  /\ op' = "tokenized"
  /\ pathSegments' = parsePathSegments(path)
  /\ otherSegments' = parsePathSegments(otherPath)
  /\ commonResult' = commonPathLength(path, otherPath)
  /\ reversedResult' = commonPathLength(otherPath, path)
  /\ UNCHANGED <<doc, path, cursor, suggestions, analysis, categorized, ranked,
                 reranked, resolved, contextual, inputVars, otherPath, extracted,
                 specificPaths>>

NextTokenize == Tokenize

SpecTokenize == InitTokenize /\ [][NextTokenize]_vars

-----------------------------------------------------------------------------
(* Root calls of extractPropertyPaths *)

\* an array of n elements e
Repeat(e, n) == Arr([i \in 1..n |-> e])

\* the elements of the arrays: primitives, null, objects with and without
\* keys of their own, one of them holding an array and one a default name
ExtractElements ==
  {Num, Null, Obj(<<>>, <<>>), Obj(<<"b">>, <<Str>>),
   Obj(<<"b">>, <<Repeat(Num, 2)>>), Obj(<<"info">>, <<Str>>)}

ExtractArrays == {Repeat(e, n) : e \in ExtractElements, n \in 0..MaxArrayLen}

\* the values under the keys of the root object: primitives, arrays, arrays
\* inside one to three nested objects
ExtractValues ==
  {Str, Null} \cup ExtractArrays
    \cup {Obj(<<"a">>, <<arr>>) : arr \in ExtractArrays}
    \cup {Obj(<<"c">>, <<Obj(<<"a">>, <<Repeat(Num, n)>>)>>) : n \in 0..MaxArrayLen}
    \cup {Obj(<<"c">>, <<Obj(<<"c">>, <<Obj(<<"a">>, <<Repeat(Num, n)>>)>>)>>) :
            n \in 0..MaxArrayLen}

\* the documents extractPropertyPaths is handed: the empty object, objects of
\* one key (among them a skipped one), objects of two keys whose second value
\* holds an array under the first key's name, arrays, and non-objects
ExtractDocs ==
  {Obj(<<>>, <<>>), Null, Str, Undefined}
    \cup {Obj(<<key>>, <<v>>) : key \in {"a", "_a", "tags"}, v \in ExtractValues}
    \cup {Obj(<<"a", "d">>, <<Repeat(Num, n), Obj(<<"a">>, <<Repeat(Num, k)>>)>>) :
            n \in 0..MaxArrayLen, k \in {2, MaxArrayLen}}
    \cup ExtractArrays

InitExtract ==
  /\ op = "start"
  /\ doc \in ExtractDocs
  /\ path = ""
  /\ cursor = 0
  /\ suggestions = <<>>
  /\ analysis = NoAnalysis
  /\ categorized = <<>>
  /\ ranked = <<>>
  /\ reranked = <<>>
  /\ resolved = <<>>
  /\ contextual = <<>>
  /\ NoInput
  /\ NoLists

\* extractPropertyPaths(doc): parentPath and maxDepth take their defaults
Extract ==
  /\ op = "start"
  /\ op' = "extracted"
  /\ extracted' = extractPropertyPaths(doc, "", 3)
  /\ UNCHANGED <<doc, path, cursor, suggestions, analysis, categorized, ranked,
                 reranked, resolved, contextual, inputVars, otherPath,
                 pathSegments, otherSegments, commonResult, reversedResult,
                 specificPaths>>

NextExtract == Extract

SpecExtract == InitExtract /\ [][NextExtract]_vars

-----------------------------------------------------------------------------
(* Calls of extractOpenAPISpecificPaths *)

\* the operations under the methods of a path item: with and without an
\* operationId, with a null one, with parameters, with a response that holds
\* content, with a null response, and null
SpecificOperations ==
  {Null,
   Obj(<<>>, <<>>),
   Obj(<<"operationId">>, <<Str>>),
   Obj(<<"operationId">>, <<Null>>),
   Obj(<<"operationId", "parameters">>, <<Str, Arr(<<>>)>>),
   Obj(<<"responses">>, <<Obj(<<"200">>, <<Null>>)>>),
   Obj(<<"responses">>,
       <<Obj(<<"200">>,
             <<Obj(<<"content">>,
                   <<Obj(<<"a/b">>, <<Obj(<<"schema">>, <<Obj(<<>>, <<>>)>>)>>)>>)>>)>>)}

\* the path items: null, a string, objects of one method, of two methods, and
\* of a key that is no HTTP method
SpecificPathItems ==
  {Null, Str}
    \cup {Obj(<<"get">>, <<operation>>) : operation \in SpecificOperations}
    \cup {Obj(<<"get", "trace">>, <<Obj(<<"operationId">>, <<Str>>), Obj(<<>>, <<>>)>>),
          Obj(<<"post">>, <<Obj(<<"operationId">>, <<Str>>)>>),
          Obj(<<"x">>, <<Obj(<<"operationId">>, <<Str>>)>>)}

\* the keys of schema.paths: with and without a slash, and a dotted key
SpecificPathKeys == {"/pets", "pets", "x", "x.get"}

\* the key lists of schema.paths: no key twice
SpecificKeyLists ==
  {keys \in ArraysUpTo(SpecificPathKeys, MaxPathKeys) :
     \A i, j \in 1..Len(keys) : keys[i] = keys[j] => i = j}

\* the `paths` objects
SpecificPathsObjects ==
  UNION {{Obj(keys, items) : items \in [1..Len(keys) -> SpecificPathItems]} :
         keys \in SpecificKeyLists}

\* the `components` objects: a schema with properties next to one whose name
\* spells the first one's `properties` path, a section that is no object, a
\* null schema
SpecificComponents ==
  {Obj(<<>>, <<>>),
   Obj(<<"schemas">>, <<Obj(<<"A">>, <<Obj(<<"properties">>, <<Obj(<<"p">>, <<Str>>)>>)>>)>>),
   Obj(<<"schemas">>,
       <<Obj(<<"A", "A.properties">>,
             <<Obj(<<"properties">>, <<Obj(<<"p">>, <<Str>>)>>), Obj(<<>>, <<>>)>>)>>),
   Obj(<<"schemas", "links">>, <<Obj(<<"A">>, <<Null>>), Str>>),
   Obj(<<"schemas">>,
       <<Obj(<<"A", "B">>,
             <<Obj(<<"properties">>, <<Obj(<<"p">>, <<Str>>)>>), Obj(<<>>, <<>>)>>)>>)}

\* the documents extractOpenAPISpecificPaths is handed
SpecificDocs ==
  {Null, Str, Obj(<<>>, <<>>), Obj(<<"paths">>, <<Null>>), Obj(<<"paths">>, <<Str>>),
   PetsDoc}
    \cup {Obj(<<"paths">>, <<pathsObject>>) : pathsObject \in SpecificPathsObjects}
    \cup {Obj(<<"components">>, <<components>>) : components \in SpecificComponents}
    \cup {Obj(<<"paths", "components">>,
               <<Obj(<<"/pets">>, <<Obj(<<"get">>, <<Obj(<<>>, <<>>)>>)>>), components>>) :
            components \in SpecificComponents}

InitSpecific ==
  /\ op = "start"
  /\ doc \in SpecificDocs
  /\ path = ""
  /\ cursor = 0
  /\ suggestions = <<>>
  /\ analysis = NoAnalysis
  /\ categorized = <<>>
  /\ ranked = <<>>
  /\ reranked = <<>>
  /\ resolved = <<>>
  /\ contextual = <<>>
  /\ NoInput
  /\ NoLists

\* extractOpenAPISpecificPaths(doc)
ExtractSpecific ==
  /\ op = "start"
  /\ op' = "specific"
  /\ specificPaths' = extractOpenAPISpecificPaths(doc)
  /\ UNCHANGED <<doc, path, cursor, suggestions, analysis, categorized, ranked,
                 reranked, resolved, contextual, inputVars, otherPath,
                 pathSegments, otherSegments, commonResult, reversedResult,
                 extracted>>

NextSpecific == ExtractSpecific

SpecSpecific == InitSpecific /\ [][NextSpecific]_vars

-----------------------------------------------------------------------------
(* Properties of analyzeCurrentSegment, checked under SpecAnalyze *)

\* C3: for every path and every cursor position inside it, the analyzer's
\* currentSegmentStart lies between 0 and the cursor position.
C3_SegmentStartWithinCursor ==
  op = "analyzed" =>
    /\ 0 <= analysis.currentSegmentStart
    /\ analysis.currentSegmentStart <= cursor

\* C3 witness: an analysis inside brackets whose segment starts exactly at the
\* cursor, with text after the cursor.
C3_Witness ==
  /\ op = "analyzed"
  /\ analysis.isInBrackets
  /\ analysis.currentSegmentStart = cursor
  /\ cursor > 1
  /\ cursor < Len(path)

\* C4 as stated: parentPath is `$`, or the strict prefix of fullPath that ends
\* at index currentSegmentStart - 1.
C4_ParentPathStrictPrefix ==
  op = "analyzed" =>
    \/ analysis.parentPath = "$"
    \/ /\ analysis.parentPath = Substring(path, 0, analysis.currentSegmentStart - 1)
       /\ Len(analysis.parentPath) < Len(path)

\* C4 amended: parentPath is always a prefix of fullPath: `$` at root; in
\* dotted-property or bracket context the strict prefix that ends at index
\* currentSegmentStart - 1; after a closed bracket the prefix that ends at
\* currentSegmentStart, the bracket included (the whole of fullPath when the
\* cursor stands at its end); the empty string when currentSegmentStart = 0.
C4_ParentPathPrefix ==
  op = "analyzed" =>
    LET start == analysis.currentSegmentStart
        flagged == analysis.isTypingProperty \/ analysis.isInBrackets
    IN  \/ analysis.parentPath = "$" /\ StartsWith(path, "$")
        \/ /\ flagged
           /\ analysis.parentPath = Substring(path, 0, start - 1)
           /\ Len(analysis.parentPath) < Len(path)
        \/ /\ ~flagged
           /\ start > 0
           /\ CharAt(path, start - 1) = "]"
           /\ analysis.parentPath = Substring(path, 0, start)
        \/ /\ ~flagged
           /\ start = 0
           /\ analysis.parentPath = ""

\* C4 witness: the cursor stands right after a closing bracket at the end of
\* the path, and parentPath is the whole path.
C4_Witness ==
  /\ op = "analyzed"
  /\ ~analysis.isTypingProperty
  /\ ~analysis.isInBrackets
  /\ analysis.currentSegmentStart > 1
  /\ analysis.parentPath = path

\* the positions (0-based) of character c in s
Positions(s, c) == {i \in 0..(Len(s) - 1) : CharAt(s, i) = c}

\* the last c of s stands after the last `]` of s
LastAfterLastClose(s, c) ==
  /\ Positions(s, c) # {}
  /\ \E i \in Positions(s, c) : \A j \in Positions(s, "]") : j < i

\* the decision list of the segment analyzer as specified, on the text before
\* the cursor
DecisionList(p, c) ==
  LET prefix == SubSeq(p, 1, c)
      dots == Positions(prefix, ".")
      opens == Positions(prefix, "[")
      lastOf(S) == CHOOSE i \in S : \A j \in S : j <= i
  IN  IF LastAfterLastClose(prefix, ".")
        THEN [start |-> lastOf(dots) + 1, parentPath |-> SubSeq(p, 1, lastOf(dots)),
              isTypingProperty |-> TRUE, isInBrackets |-> FALSE]
      ELSE IF LastAfterLastClose(prefix, "[")
        THEN [start |-> lastOf(opens) + 1, parentPath |-> SubSeq(p, 1, lastOf(opens)),
              isTypingProperty |-> FALSE, isInBrackets |-> TRUE]
      ELSE IF c > 0 /\ SubSeq(prefix, c, c) = "]"
        THEN [start |-> c, parentPath |-> prefix,
              isTypingProperty |-> FALSE, isInBrackets |-> FALSE]
      ELSE IF c > 0 /\ SubSeq(prefix, 1, 1) = "$"
        THEN [start |-> 1, parentPath |-> "$",
              isTypingProperty |-> FALSE, isInBrackets |-> FALSE]
      ELSE [start |-> 0, parentPath |-> "",
            isTypingProperty |-> FALSE, isInBrackets |-> FALSE]

\* C5: the analyzer classifies the text before the cursor exactly as the
\* decision list does: dotted property, bracket context, fresh segment after
\* a closing bracket, root, default.
C5_DecisionList ==
  op = "analyzed" =>
    LET d == DecisionList(path, cursor)
    IN  /\ analysis.currentSegmentStart = d.start
        /\ analysis.parentPath = d.parentPath
        /\ analysis.isTypingProperty = d.isTypingProperty
        /\ analysis.isInBrackets = d.isInBrackets

\* C5 restricted to prefixes other than the single character `]`
C5_DecisionListButLoneBracket ==
  (op = "analyzed" /\ PathToCursor(path, cursor) # "]") =>
    LET d == DecisionList(path, cursor)
    IN  /\ analysis.currentSegmentStart = d.start
        /\ analysis.parentPath = d.parentPath
        /\ analysis.isTypingProperty = d.isTypingProperty
        /\ analysis.isInBrackets = d.isInBrackets

-----------------------------------------------------------------------------
(* Properties of categorizeAndSortSuggestions, checked under SpecRank *)

\* the three sort keys of an entry
SortKey(e) == <<e.category, e.importance, e.frequency>>

\* entry a may stand before entry b: lower category, then higher importance,
\* then higher frequency
KeyOrdered(a, b) ==
  \/ a.category < b.category
  \/ a.category = b.category /\ a.importance > b.importance
  \/ a.category = b.category /\ a.importance = b.importance
     /\ a.frequency >= b.frequency

\* the entries of arr whose keys are k, in the order of arr
WithKey(arr, k) == SelectSeq(arr, LAMBDA e : SortKey(e) = k)

C7_PermutationInputKept ==
  [][(op = "start" /\ op' = "ranked") =>
       /\ suggestions' = suggestions
       /\ Len(ranked') = Len(suggestions)
       /\ \A t \in SuggestionPool : CountIn(ranked', t) = CountIn(suggestions, t)]_vars

\* C7 witness: a ranked array with a duplicate, in another order than the input.
C7_Witness ==
  /\ op = "ranked"
  /\ ranked # suggestions
  /\ \E t \in SuggestionPool : CountIn(suggestions, t) = 2

\* occurrences, in the whole batch, of the path segments of candidate t
BatchFrequency(suggs, t) ==
  LET own == {SplitSegments(t)[k] : k \in 1..Len(SplitSegments(t))}
      RECURSIVE Sum(_)
      Sum(n) ==
        IF n = 0 THEN 0
        ELSE Cardinality({k \in 1..Len(SplitSegments(suggs[n])) :
                            SplitSegments(suggs[n])[k] \in own}) + Sum(n - 1)
  IN  Sum(Len(suggs))

\* C8: the frequency of a candidate is the number of occurrences of its path
\* segments in the full batch, and of two candidates tied on category and
\* importance the one whose segments occur more often ranks first.
C8_BatchFrequency ==
  op = "ranked" =>
    /\ \A i \in 1..Len(categorized) :
         categorized[i].frequency = BatchFrequency(suggestions, categorized[i].text)
    /\ \A i, j \in 1..Len(categorized) :
         (/\ i < j
          /\ categorized[i].category = categorized[j].category
          /\ categorized[i].importance = categorized[j].importance)
         => BatchFrequency(suggestions, categorized[i].text)
              >= BatchFrequency(suggestions, categorized[j].text)

\* the path segments of all candidates of the batch
RECURSIVE BatchSegments(_)
BatchSegments(suggs) ==
  IF suggs = <<>> THEN <<>>
  ELSE SplitSegments(Head(suggs)) \o BatchSegments(Tail(suggs))

\* candidate t is a single path segment (no `.`, `[` or `]`)
SingleSegment(t) == SplitSegments(t) = <<t>>

\* the ranking half of C8 alone, for single-segment candidates of batches
\* without duplicates
C8_RankingHalfNoDuplicates ==
  (op = "ranked" /\ \A t \in SuggestionPool : CountIn(suggestions, t) <= 1) =>
    \A i, j \in 1..Len(categorized) :
      (/\ i < j
       /\ SingleSegment(categorized[i].text)
       /\ SingleSegment(categorized[j].text)
       /\ categorized[i].category = categorized[j].category
       /\ categorized[i].importance = categorized[j].importance)
      => CountIn(BatchSegments(suggestions), categorized[i].text)
           >= CountIn(BatchSegments(suggestions), categorized[j].text)

\* C9: ranking the ranked array again, with the same path and cursor, gives
\* the same order.
C9_RankIdempotent == op = "reranked" => reranked = ranked

\* C9 on batches without duplicates
C9_RankIdempotentNoDuplicates ==
  (op = "reranked" /\ \A t \in SuggestionPool : CountIn(suggestions, t) <= 1)
    => reranked = ranked

\* candidate t starts, case-insensitively, with the segment being typed
PrefixMatch(t) == StartsWith(ToLowerCase(t), ToLowerCase(analysis.currentSegment))

\* C10: in dotted-property or bracket context every candidate that starts
\* (case-insensitively) with the current segment is SCHEMA_FIELD with
\* importance 100 - length, ranks before every candidate that does not, and
\* ranks before every longer such candidate.
C10_PrefixMatchesFirst ==
  (op = "ranked" /\ (analysis.isTypingProperty \/ analysis.isInBrackets)) =>
    /\ \A i \in 1..Len(categorized) :
         PrefixMatch(categorized[i].text) =>
           /\ categorized[i].category = SCHEMA_FIELD
           /\ categorized[i].importance = 100 - Len(categorized[i].text)
    /\ \A i, j \in 1..Len(ranked) :
         (PrefixMatch(ranked[i]) /\ ~PrefixMatch(ranked[j])) => i < j
    /\ \A i, j \in 1..Len(ranked) :
         (/\ PrefixMatch(ranked[i])
          /\ PrefixMatch(ranked[j])
          /\ Len(ranked[i]) < Len(ranked[j])) => i < j

\* C10 witness: `$.pa` is being typed; in the input a candidate that does not
\* match stands before the matching ones and `parameters` before `paths`.
C10_Witness ==
  /\ op = "ranked"
  /\ analysis.isTypingProperty
  /\ analysis.currentSegment = "pa"
  /\ Len(suggestions) = 3
  /\ ~PrefixMatch(suggestions[1])
  /\ suggestions[2] = "parameters"
  /\ suggestions[3] = "paths"
  /\ ranked[1] = "paths"

\* the rank class of a candidate at root: 0 for a member of the default-parts
\* list, 1 for another candidate that starts with `$.`, 2 for the rest
RootClass(t) ==
  IF SeqIncludes(DEFAULT_JSONPATH_PARTS, t) THEN 0
  ELSE IF StartsWith(t, "$.") THEN 1
  ELSE 2

\* C11: at root (currentPath `$` or empty) the members of the default-parts
\* list get SCHEMA_FIELD with importance 100, the other candidates that start
\* with `$.` get PROPERTY_ACCESS with importance 80, the rest get OTHER with
\* importance 0, and the result lists the three classes in this order.
C11_RootRanking ==
  (op = "ranked" /\ path \in {"", "$"}) =>
    /\ \A i \in 1..Len(categorized) :
         <<categorized[i].category, categorized[i].importance>> =
           CASE RootClass(categorized[i].text) = 0 -> <<SCHEMA_FIELD, 100>>
             [] RootClass(categorized[i].text) = 1 -> <<PROPERTY_ACCESS, 80>>
             [] OTHER -> <<OTHER_CATEGORY, 0>>
    /\ \A i, j \in 1..Len(ranked) :
         i < j => RootClass(ranked[i]) <= RootClass(ranked[j])

\* a candidate of each class, given in reverse order, ranked at root
C11_Witness ==
  /\ op = "ranked"
  /\ path = "$"
  /\ suggestions = <<"info", "$.tags", "$.info">>
  /\ ranked = <<"$.info", "$.tags", "info">>

-----------------------------------------------------------------------------
(* Properties of the JSONPathAutocomplete component, checked under SpecInput *)

\* the pending debounce timers
PendingDebounce == {t \in timers : t.kind = "debounce"}

\* the call of onChange made in this step, if one is made
CallMade == Len(onChangeCalls') = Len(onChangeCalls) + 1
NewCall == onChangeCalls'[Len(onChangeCalls')]

\* the last call of onChange came from the debounce and carried v
LastCallDebounced(v) ==
  /\ Len(onChangeCalls) > 0
  /\ onChangeCalls[Len(onChangeCalls)].by = "debounce"
  /\ onChangeCalls[Len(onChangeCalls)].value = v

\* C12: at every moment at most one debounce timer is pending and it carries
\* the value of the last keystroke; the debounce calls onChange at most once
\* per keystroke, always with the value of the last keystroke, never with an
\* earlier one; and a pending debounce timer leads to such a call (once the
\* keystrokes pause, the timer runs).
C12_DebounceLastKeystrokeWins ==
  /\ [](/\ Cardinality(PendingDebounce) <= 1
        /\ \A t \in PendingDebounce : t.value = lastKeystroke
        /\ \A i, j \in 1..Len(onChangeCalls) :
             (i < j /\ onChangeCalls[i].by = "debounce"
                    /\ onChangeCalls[j].by = "debounce")
               => onChangeCalls[i].edit # onChangeCalls[j].edit)
  /\ [][(CallMade /\ NewCall.by = "debounce") => NewCall.value = lastKeystroke]_vars
  /\ (PendingDebounce # {}) ~> (PendingDebounce = {} /\ LastCallDebounced(lastKeystroke))

\* two keystrokes, then the debounce has called onChange once, with the value
\* of the second
C12_Witness ==
  /\ edits = 2
  /\ lastKeystroke = "$.p"
  /\ timers = {}
  /\ onChangeCalls = <<[by |-> "debounce", value |-> "$.p", edit |-> 2]>>

\* C13: whenever a debounce timer fires, the value it passes to onChange is
\* the input's current value, and no call of onChange delivers the value of an
\* earlier keystroke or selection after that of a later one.
C13_NoStaleCallback ==
  /\ [][(CallMade /\ NewCall.by = "debounce") => NewCall.value = inputValue]_vars
  /\ [](\A i, j \in 1..Len(onChangeCalls) :
          i < j => onChangeCalls[i].edit <= onChangeCalls[j].edit)

\* C13 as long as no suggestion has been selected
C13_NoStaleCallbackWithoutSelection ==
  /\ [][(CallMade /\ NewCall.by = "debounce"
         /\ \A i \in 1..Len(onChangeCalls) : onChangeCalls[i].by # "select")
          => NewCall.value = inputValue]_vars
  /\ []((\A i \in 1..Len(onChangeCalls) : onChangeCalls[i].by # "select") =>
          \A i, j \in 1..Len(onChangeCalls) :
            i < j => onChangeCalls[i].edit <= onChangeCalls[j].edit)

\* C14: on selection of a suggestion, the string passed to onChange is the
\* string the input shows after the selection, in every insertion scenario.
C14_SelectionDelivered ==
  [][(CallMade /\ NewCall.by = "select") => NewCall.value = inputValue']_vars

\* C14 for a selection made while a dotted property or bracket content is
\* being typed
C14_SelectionDeliveredInSegment ==
  [][(/\ CallMade
      /\ NewCall.by = "select"
      /\ \/ analyzeCurrentSegment(inputValue, cursorPositionState).isTypingProperty
         \/ analyzeCurrentSegment(inputValue, cursorPositionState).isInBrackets)
       => NewCall.value = inputValue']_vars

-----------------------------------------------------------------------------
(* Properties of resolveSchemaPath, checked under SpecResolve *)

\* the keys of the model's documents
DocKeys == {"a", "b"}

\* `$` followed by `.key` for each key of ks
RECURSIVE DottedPath(_)
DottedPath(ks) ==
  IF ks = <<>> THEN "$"
  ELSE DottedPath(SubSeq(ks, 1, Len(ks) - 1)) \o "." \o ks[Len(ks)]

\* some key of ks is missing on the way down from v: v is an object or array
\* without the key, or the key's value lacks a later one
RECURSIVE KeyMissing(_, _)
KeyMissing(v, ks) ==
  /\ ks # <<>>
  /\ v.kind \in {"object", "array"}
  /\ IF \E k \in 1..Len(v.keys) : v.keys[k] = Head(ks)
       THEN KeyMissing(v.vals[CHOOSE k \in 1..Len(v.keys) : v.keys[k] = Head(ks)],
                       Tail(ks))
       ELSE TRUE

\* C2: resolveSchemaPath never throws, whatever the document (null values
\* included) and the path, and a dotted path with a missing key resolves to
\* undefined.
C2_ResolveNeverThrows ==
  op = "resolved" =>
    /\ ~resolved.thrown
    /\ \A ks \in ArraysUpTo(DocKeys, 2) :
         (path = DottedPath(ks) /\ KeyMissing(doc, ks)) => resolved.value = Undefined

\* C2 on the documents that hold no null
C2_ResolveNeverThrowsWithoutNull ==
  (op = "resolved" /\ doc \in {Obj(<<>>, <<>>), Obj(<<"a">>, <<Obj(<<"b">>, <<Str>>)>>)}) =>
    /\ ~resolved.thrown
    /\ \A ks \in ArraysUpTo(DocKeys, 2) :
         (path = DottedPath(ks) /\ KeyMissing(doc, ks)) => resolved.value = Undefined

-----------------------------------------------------------------------------
(* Properties of getContextualSuggestions, checked under SpecContextual *)

\* the analyzed parentPath resolved to an object (or array)
ParentIsObject ==
  /\ ~resolved.thrown
  /\ resolved.value.kind \in {"object", "array"}

\* C1: getContextualSuggestions returns a list of strings and never throws;
\* when the analyzed parentPath does not resolve to an object, or resolving it
\* throws, the result is that of generatePathSuggestions(document,
\* currentPath, cursorPosition).
C1_ContextualNeverThrows ==
  op = "contextual" =>
    /\ ~contextual.thrown
    /\ (path # "" /\ path # "$" /\ ~ParentIsObject) =>
         contextual = generatePathSuggestions(doc, path, cursor)

\* C1 on the documents whose responses hold no null
C1_ContextualNeverThrowsWithoutNullResponse ==
  (op = "contextual" /\ doc # NullResponseDoc) =>
    /\ ~contextual.thrown
    /\ (path # "" /\ path # "$" /\ ~ParentIsObject) =>
         contextual = generatePathSuggestions(doc, path, cursor)

-----------------------------------------------------------------------------
(* Properties of parsePathSegments and commonPathLength, checked under
   SpecTokenize *)

\* C15: for every path string, the empty one included, the first segment of
\* parsePathSegments(p) is `$`.
C15_FirstSegmentIsRoot ==
  op = "tokenized" => (Len(pathSegments) >= 1 /\ pathSegments[1] = "$")

\* C15, amended: for every non-empty path string the first segment of
\* parsePathSegments(p) is `$`, and the empty string gives the empty sequence.
C15_FirstSegmentIsRootUnlessEmpty ==
  op = "tokenized" =>
    IF path = "" THEN pathSegments = <<>>
    ELSE Len(pathSegments) >= 1 /\ pathSegments[1] = "$"

\* C15 witness: an unrooted path of two segments came out with the root in
\* front.
C15_Witness ==
  /\ op = "tokenized"
  /\ path = "a.a"
  /\ pathSegments = <<"$", "a", "a">>

\* the quote character open just before the 1-based position i of s, "" when
\* position i lies outside a quoted string
RECURSIVE QuoteOpenBefore(_, _)
QuoteOpenBefore(s, i) ==
  IF i <= 1 THEN ""
  ELSE LET q == QuoteOpenBefore(s, i - 1)
           c == SubSeq(s, i - 1, i - 1)
       IN  IF q = "" THEN (IF c \in {"'", "\""} THEN c ELSE "")
           ELSE IF c = q THEN "" ELSE q

\* position i of s lies after a `[` that no `]` has closed since (quoted
\* brackets do not count): one level, the last bracket character decides
BracketOpenBefore(s, i) ==
  \E j \in 1..(i - 1) :
    /\ SubSeq(s, j, j) = "[" /\ QuoteOpenBefore(s, j) = ""
    /\ \A k \in (j + 1)..(i - 1) :
         ~(SubSeq(s, k, k) = "]" /\ QuoteOpenBefore(s, k) = "")

\* the positions of the dots of s outside brackets and quotes
CutPoints(s) ==
  {i \in 1..Len(s) : /\ SubSeq(s, i, i) = "."
                     /\ QuoteOpenBefore(s, i) = ""
                     /\ ~BracketOpenBefore(s, i)}

\* the non-empty pieces of s between the cut points, from position `from` on,
\* in the order of the path
RECURSIVE PiecesFrom(_, _, _)
PiecesFrom(s, cuts, from) ==
  IF from > Len(s) THEN <<>>
  ELSE LET ends == {c \in cuts \cup {Len(s) + 1} : c >= from}
           next == CHOOSE c \in ends : \A d \in ends : c <= d
           piece == SubSeq(s, from, next - 1)
       IN  (IF piece = "" THEN <<>> ELSE <<piece>>) \o PiecesFrom(s, cuts, next + 1)

\* the path without one leading `$`
WithoutRoot(p) == IF Len(p) >= 1 /\ SubSeq(p, 1, 1) = "$" THEN SubSeq(p, 2, Len(p)) ELSE p

\* C16: after one leading `$` is stripped, the segments behind the root are
\* the non-empty pieces of the path between exactly those dots that lie
\* outside an open bracket and outside a quoted string, brackets and quotes
\* kept in the piece they belong to, in path order, the trailing piece
\* included.
C16_CutsAtUnprotectedDots ==
  op = "tokenized" =>
    (IF pathSegments = <<>> THEN <<>> ELSE Tail(pathSegments))
      = PiecesFrom(WithoutRoot(path), CutPoints(WithoutRoot(path)), 1)

\* C16 witness: a dot inside a quoted string stayed in its segment, the dot
\* behind the closing quote cut, and the trailing segment came out.
C16_Witness ==
  /\ op = "tokenized"
  /\ path = "'.'."
  /\ pathSegments = <<"$", "'.'">>
  /\ otherPath = "a[a.a"
  /\ otherSegments = <<"$", "a[a.a">>

\* the leading positions on which two segment lists agree
AgreeUpTo(s1, s2) ==
  {n \in 0..Min(Len(s1), Len(s2)) : \A i \in 1..n : s1[i] = s2[i]}

\* C17: commonPathLength(p1, p2) = commonPathLength(p2, p1), and the value
\* is the number of leading segments on which the two tokenized paths agree.
C17_CommonPathLengthSymmetric ==
  op = "tokenized" =>
    /\ commonResult = reversedResult
    /\ commonResult = Cardinality(AgreeUpTo(pathSegments, otherSegments)) - 1

\* C17 witness: two paths of different lengths that agree on the root and one
\* more segment, then part.
C17_Witness ==
  /\ op = "tokenized"
  /\ path = "a.aa"
  /\ otherPath = "$.a.a"
  /\ commonResult = 2
  /\ reversedResult = 2

-----------------------------------------------------------------------------
(* Properties of extractPropertyPaths, checked under SpecExtract *)

\* C18: a root call on any object, the empty object included, returns a list
\* that contains info, paths, components, tags, servers, externalDocs,
\* security, webhooks and openapi, whether or not the document has those keys.
C18_RootCallSeedsNineNames ==
  (op = "extracted" /\ doc.kind \in {"object", "array"}) =>
    \A name \in {"info", "paths", "components", "tags", "servers", "externalDocs",
                  "security", "webhooks", "openapi"} :
      \E n \in 1..Len(extracted) : extracted[n] = name

\* C18 witness: the empty object gave the nine names and nothing else.
C18_Witness ==
  /\ op = "extracted"
  /\ doc = Obj(<<>>, <<>>)
  /\ Len(extracted) = 9
  /\ extracted[1] = "info"
  /\ extracted[9] = "openapi"

\* the array-valued keys a call on obj visits within `depth` levels, each
\* with the length of its array and the text its entries carry in front in
\* the root call's result: nothing for the keys of nested objects, the
\* wildcard path of the array for the keys of its first element
RECURSIVE VisitedArrays(_, _, _)
VisitedArrays(obj, front, depth) ==
  IF obj.kind \notin {"object", "array"} \/ depth <= 0 THEN {}
  ELSE UNION {
    LET key == obj.keys[k]
        child == obj.vals[k]
    IN  IF SubSeq(key, 1, 1) \in {"$", "_"} THEN {}
        ELSE IF child.kind = "array" THEN
          {[front |-> front, key |-> key, length |-> Len(child.vals)]}
            \cup (IF Len(child.vals) > 0
                    THEN VisitedArrays(child.vals[1], front \o key \o "[*].", depth - 1)
                    ELSE {})
        ELSE VisitedArrays(child, front, depth - 1)
    : k \in 1..Len(obj.keys)}

\* the index entry of position i of a visited array
IndexEntry(visit, i) == visit.front \o visit.key \o "[" \o IndexKeys[i + 1] \o "]"

RECURSIVE OwnNames(_, _)
OwnNames(obj, depth) ==
  IF obj.kind \notin {"object", "array"} \/ depth <= 0 THEN {}
  ELSE UNION {
    IF SubSeq(obj.keys[k], 1, 1) \in {"$", "_"} THEN {}
    ELSE {obj.keys[k]}
           \cup (IF obj.vals[k].kind = "object"
                   THEN OwnNames(obj.vals[k], depth - 1) ELSE {})
    : k \in 1..Len(obj.keys)}

\* C20: the nine names are seeded by the root call only: for an array under
\* a root key whose first element is an object, an entry `key[*].name` with
\* one of the nine names is emitted only when the name is discovered among
\* that element's own properties.
C20_SeedsAtRootOnly ==
  (op = "extracted" /\ doc.kind = "object") =>
    \A k \in 1..Len(doc.keys) :
      (/\ SubSeq(doc.keys[k], 1, 1) \notin {"$", "_"}
       /\ doc.vals[k].kind = "array"
       /\ Len(doc.vals[k].vals) > 0
       /\ doc.vals[k].vals[1].kind \in {"object", "array"}) =>
        \A i \in 1..Len(ROOT_SECTIONS) :
          (\E n \in 1..Len(extracted) :
             extracted[n] = doc.keys[k] \o "[*]." \o ROOT_SECTIONS[i])
            => ROOT_SECTIONS[i] \in OwnNames(doc.vals[k].vals[1], 2)

\* C20 on the documents whose arrays hold no object
C20_SeedsAtRootOnlyWithoutElementObjects ==
  (op = "extracted" /\ doc.kind = "object") =>
    \A k \in 1..Len(doc.keys) :
      (/\ SubSeq(doc.keys[k], 1, 1) \notin {"$", "_"}
       /\ doc.vals[k].kind = "array"
       /\ Len(doc.vals[k].vals) > 0
       /\ doc.vals[k].vals[1].kind \notin {"object", "array"}) =>
        \A i \in 1..Len(ROOT_SECTIONS) :
          ~\E n \in 1..Len(extracted) :
             extracted[n] = doc.keys[k] \o "[*]." \o ROOT_SECTIONS[i]

-----------------------------------------------------------------------------
(* Properties of extractOpenAPISpecificPaths, checked under SpecSpecific *)

\* the document is an object whose `paths` is an object
HasPathsObject ==
  /\ doc.kind = "object"
  /\ \E k \in 1..Len(doc.keys) : doc.keys[k] = "paths" /\ doc.vals[k].kind = "object"

\* doc.paths, for a document that has one
PathsOf(d) == d.vals[CHOOSE k \in 1..Len(d.keys) : d.keys[k] = "paths"]

\* the path of a path key: bracket-quoted when the key holds a slash, dotted
\* otherwise
EntryOfPathKey(pathKey) ==
  IF \E i \in 1..Len(pathKey) : SubSeq(pathKey, i, i) = "/"
    THEN "$.paths['" \o pathKey \o "']"
    ELSE "$.paths." \o pathKey

\* item[name] is there and neither null nor undefined (the values of the
\* model's documents are otherwise truthy)
Holds(item, name) ==
  /\ item.kind = "object"
  /\ \E k \in 1..Len(item.keys) :
       item.keys[k] = name /\ item.vals[k].kind \notin {"null", "undefined"}

\* item[name], for an item that holds it
Held(item, name) == item.vals[CHOOSE k \in 1..Len(item.keys) : item.keys[k] = name]

\* entry e comes out, and entry f after it
EmittedInOrder(e, f) ==
  \E i, j \in 1..Len(specificPaths.value) :
    i < j /\ specificPaths.value[i] = e /\ specificPaths.value[j] = f

Emitted(e) == \E i \in 1..Len(specificPaths.value) : specificPaths.value[i] = e

\* no key of the `paths` object holds a dot, so that no two entries of
\* different origin spell the same path
PlainPathKeys(pathsObject) ==
  \A k \in 1..Len(pathsObject.keys) :
    \A i \in 1..Len(pathsObject.keys[k]) : SubSeq(pathsObject.keys[k], i, i) # "."

\* what C21 says of a call that returned for a document with a `paths` object
PathEntriesEmitted ==
  LET pathsObject == PathsOf(doc)
  IN  /\ Len(specificPaths.value) >= 1
      /\ specificPaths.value[1] = "$.paths"
      /\ \A k \in 1..Len(pathsObject.keys) :
           LET entry == EntryOfPathKey(pathsObject.keys[k])
               item == pathsObject.vals[k]
           IN  /\ EmittedInOrder("$.paths", entry)
               /\ \A m \in 1..Len(HTTP_METHODS) :
                    LET method == HTTP_METHODS[m]
                    IN  IF Holds(item, method)
                          THEN /\ EmittedInOrder(entry, entry \o "." \o method)
                               /\ Holds(Held(item, method), "operationId")
                                    => EmittedInOrder(entry \o "." \o method,
                                                      entry \o "." \o method \o ".operationId")
                               /\ (PlainPathKeys(pathsObject)
                                      /\ ~Holds(Held(item, method), "operationId"))
                                    => ~Emitted(entry \o "." \o method \o ".operationId")
                          ELSE PlainPathKeys(pathsObject)
                                 => ~Emitted(entry \o "." \o method)

\* C21: for every document with a `paths` object the extractor emits
\* `$.paths`, then for each path key its path (bracket-quoted when the key
\* holds a slash, dotted otherwise), for each HTTP method the path item holds
\* the method path, and the `.operationId` path exactly when the operation
\* has an operationId.
C21_PathEntries ==
  (op = "specific" /\ HasPathsObject) =>
    (~specificPaths.thrown /\ PathEntriesEmitted)

\* C21 on the calls that return
C21_PathEntriesWhenReturned ==
  (op = "specific" /\ HasPathsObject /\ ~specificPaths.thrown) => PathEntriesEmitted

\* no string occurs twice in the returned list
NoDuplicates ==
  \A i, j \in 1..Len(specificPaths.value) :
    specificPaths.value[i] = specificPaths.value[j] => i = j

NoDottedKeys ==
  \A a \in 1..Len(doc.vals) :
    \A b \in 1..Len(doc.vals[a].vals) :
      /\ \A i \in 1..Len(doc.vals[a].keys[b]) : SubSeq(doc.vals[a].keys[b], i, i) # "."
      /\ \A c \in 1..Len(doc.vals[a].vals[b].keys) :
           \A i \in 1..Len(doc.vals[a].vals[b].keys[c]) :
             SubSeq(doc.vals[a].vals[b].keys[c], i, i) # "."

-----------------------------------------------------------------------------
(* Properties of getContextualSuggestions on a resolved parent, checked
   under SpecKeys *)

\* the own keys of the parent that start with neither `$` nor `_`: the keys
\* outside the descriptor list first, the descriptor keys after them
OfferedKeys(parent) ==
  LET descriptors == {"type", "properties", "items", "required", "description", "format"}
      shown == SelectSeq(parent.keys, LAMBDA k : SubSeq(k, 1, 1) \notin {"$", "_"})
  IN  SelectSeq(shown, LAMBDA k : k \notin descriptors)
        \o SelectSeq(shown, LAMBDA k : k \in descriptors)

\* a key as it is offered in the context of the analysis
OfferedAs(k) ==
  IF analysis.isInBrackets
    THEN IF \E i \in 1..Len(k) : SubSeq(k, i, i) \in {" ", "-", "/"}
           THEN "'" \o k \o "'" ELSE k
  ELSE IF analysis.isTypingProperty THEN k
  ELSE "." \o k

\* the syntax elements for the parent
SyntaxFor(parent) ==
  (IF parent.kind = "array" THEN <<"[*]", "[0]">> ELSE <<>>) \o <<".*", ".**", "..">>

\* the entries that start, case-insensitively, with the typed segment
StartingWithSegment(entries) ==
  IF analysis.currentSegment = "" THEN entries
  ELSE SelectSeq(entries,
                 LAMBDA e : LET lower == ToLowerCase(e)
                                prefix == ToLowerCase(analysis.currentSegment)
                            IN  /\ Len(prefix) <= Len(lower)
                                /\ SubSeq(lower, 1, Len(prefix)) = prefix)

\* the keys of the parent, formatted
FormattedKeys(parent) ==
  [n \in 1..Len(OfferedKeys(parent)) |-> OfferedAs(OfferedKeys(parent)[n])]

\* C23: when the analyzed parentPath resolves to an object, the result is
\* that object's own keys not starting with `$` or `_` (descriptor keys
\* last), each formatted for the context, followed by the syntax elements
\* for the parent, the whole list filtered to the entries that start with
\* the typed segment when that segment is non-empty.
C23_KeysOfParent ==
  (op = "contextual" /\ ParentIsObject) =>
    contextual = Value(StartingWithSegment(FormattedKeys(resolved.value)
                                            \o SyntaxFor(resolved.value)))

\* C23, amended: for a path other than the empty string and `$`, when the
\* analyzed parentPath resolves to an object, the result is the formatted
\* keys followed by the syntax elements when nothing is typed in the current
\* segment, and the formatted keys that start with the typed segment,
\* without any syntax element, otherwise.
C23_KeysOfParentSyntaxWhenNothingTyped ==
  (op = "contextual" /\ ParentIsObject /\ path \notin {"", "$"}) =>
    contextual = Value(IF analysis.currentSegment = ""
                         THEN FormattedKeys(resolved.value) \o SyntaxFor(resolved.value)
                         ELSE StartingWithSegment(FormattedKeys(resolved.value)))

\* C23 witness: `t` typed behind `$.` in front of an object that has the
\* keys type, Tags and tags next to hidden ones: the three keys came out
\* bare, the descriptor key last.
C23_Witness ==
  /\ op = "contextual"
  /\ doc = KeysDoc
  /\ path = "$.t"
  /\ cursor = 3
  /\ contextual = Value(<<"Tags", "tags", "type">>)

-----------------------------------------------------------------------------
(* Properties of resolveSchemaPath on unsupported syntax, checked under
   SpecResolve *)

\* the path holds the text t
PathHolds(t) == \E i \in 1..(Len(path) - Len(t) + 1) : SubSeq(path, i, i + Len(t) - 1) = t

\* C24: for every document, a path that holds a filter expression `[?(`, a
\* wildcard `*` or a recursive descent `..` resolves to undefined.
C24_UnsupportedSyntaxUndefined ==
  (op = "resolved" /\ (PathHolds("[?(") \/ PathHolds("*") \/ PathHolds(".."))) =>
    resolved = Value(Undefined)

\* C24 for filter expressions and wildcards alone, on the calls that return
C24_FilterAndWildcardUndefined ==
  (op = "resolved" /\ (PathHolds("[?(") \/ PathHolds("*")) /\ ~resolved.thrown) =>
    resolved = Value(Undefined)

\* a recursive descent in front of a key the document has resolves like a
\* single dot
C24_DescentResolvesLikeDot ==
  /\ op = "resolved"
  /\ path = "$..a"
  /\ doc = Obj(<<"a">>, <<Obj(<<"b">>, <<Str>>)>>)
  /\ resolved = Value(Obj(<<"b">>, <<Str>>))

-----------------------------------------------------------------------------
(* The branches of the ranker behind the common-length test, checked under
   SpecRank *)

\* C25: commonPathLength of two non-empty paths is at least 1, in either
\* order; so in dotted-property or bracket context every non-empty candidate
\* is categorized SCHEMA_FIELD, PROPERTY_ACCESS or ARRAY_ACCESS, never
\* SYNTAX_ELEMENT (importance 50) nor OTHER (importance 30 or 0).
C25_SyntaxAndOtherBranchesDead ==
  op \in {"ranked", "reranked"} =>
    \A i \in 1..Len(categorized) :
      LET candidate == categorized[i]
      IN  candidate.text # "" =>
            /\ path # "" =>
                 /\ commonPathLength(path, candidate.text) >= 1
                 /\ commonPathLength(candidate.text, path) >= 1
            /\ (analysis.isTypingProperty \/ analysis.isInBrackets) =>
                 /\ candidate.category \in {SCHEMA_FIELD, PROPERTY_ACCESS, ARRAY_ACCESS}
                 /\ candidate.category \notin {SYNTAX_ELEMENT, OTHER_CATEGORY}

\* C25 witness: behind `$.pa` the syntax element `.*`, which neither starts
\* with `pa` nor with the parent path, was categorized ARRAY_ACCESS on the
\* strength of the common root.
C25_Witness ==
  /\ op = "ranked"
  /\ path = "$.pa"
  /\ cursor = 4
  /\ suggestions = <<".*">>
  /\ categorized = <<[text |-> ".*", category |-> ARRAY_ACCESS, importance |-> 69,
                      frequency |-> 0]>>

\* the first half of C25 on the paths of SpecTokenize
C25_CommonAtLeastOne ==
  (op = "tokenized" /\ path # "" /\ otherPath # "") =>
    (commonResult >= 1 /\ reversedResult >= 1)

-----------------------------------------------------------------------------
(* Properties of the list on display, checked under SpecInput *)

\* C26: after any sequence of edits, cursor moves and key events the list on
\* display has at most 100 entries, highlightedIndex is -1 when the list is
\* empty and lies in 0..length-1 otherwise, so that the entry Enter or Tab
\* selects exists in the list.
C26_HighlightWithinList ==
  /\ Len(filteredSuggestions) <= 100
  /\ IF Len(filteredSuggestions) = 0
       THEN highlightedIndex = -1
       ELSE highlightedIndex \in 0..(Len(filteredSuggestions) - 1)
  /\ (~ListHidden /\ highlightedIndex >= 0) => highlightedIndex < Len(filteredSuggestions)

\* C26 while the list holds an entry, and for Enter and Tab: an empty list
\* may keep the highlight of the list before it
C26_HighlightWithinNonEmptyList ==
  /\ Len(filteredSuggestions) <= 100
  /\ Len(filteredSuggestions) > 0
       => highlightedIndex \in 0..(Len(filteredSuggestions) - 1)
  /\ (~ListHidden /\ highlightedIndex >= 0)
       => highlightedIndex < Len(filteredSuggestions)

\* the input was emptied while an entry was highlighted: the list is empty
\* and the highlight is still there
C26_StaleHighlight ==
  /\ inputValue = ""
  /\ filteredSuggestions = <<>>
  /\ highlightedIndex >= 0

====
